---- MODULE Spec2Model ----
(***************************************************************************)
(* A model of the Kentucky Driver's Manual test-bank pipeline:             *)
(*   - KentuckyManualProcessor._structure_toc       (pdf_processor.py)     *)
(*   - the difficulty quotas of both generators     (question_generator.py,*)
(*                                                   simple_generator.py)  *)
(*   - QuestionGenerator.generate_test_bank and the coverage report        *)
(*   - QuestionGenerator.create_question_from_chunk / generate_wrong_answers*)
(*   - question_qc.main / regenerate_questions / extract_topic             *)
(* Text is a string, on which lower(), substring tests, replace() and      *)
(* split() are computed character by character.                            *)
(* Each subsystem has its own specification over the shared variables;     *)
(* the variable pc tells where the run stands.                             *)
(***************************************************************************)
EXTENDS Integers, Sequences, FiniteSets, TLC

VARIABLES
    pc,                    \* position of the run
    toc,                   \* KentuckyManualProcessor.toc (flat list)
    page_count,            \* KentuckyManualProcessor.page_count
    structured_sections,   \* result of _structure_toc
    num_questions,         \* requested total
    difficulty_targets,    \* generate_test_bank's quotas
    simple_counts,         \* simple_generator.main's quotas
    sections,              \* QuestionGenerator.sections
    chunks,                \* QuestionGenerator.chunks
    questions,             \* the bank being built / loaded
    difficulty_counts,     \* generate_test_bank's running counts
    chunks_used,           \* generate_test_bank's set of used chunk ids
    sec_i,                 \* index of the section the first pass is at
    made,                  \* questions made for that section so far
    coverage_report,       \* result of calculate_coverage
    final_questions,       \* question_qc.main: the bank written to the output
    qc_report,             \* question_qc.main: the QC report written
    stats_file,            \* question_qc.main: what output/stats.txt reports
    runs,                  \* how many times the validator has run
    gen_chunk,             \* create_question_from_chunk: chunk
    gen_stem,              \* create_question_from_chunk: question_text, requires_image
    gen_topic,             \* create_question_from_chunk: topic
    gen_correct,           \* create_question_from_chunk: correct_answer
    gen_wrong,             \* generate_wrong_answers: wrong_answers
    gen_question,          \* create_question_from_chunk: the Question returned
    pages_text,            \* chunk_text_by_sections: text of every page
    section_map,           \* KentuckyManualProcessor.section_map, in dict order
    text_chunks,           \* chunk_text_by_sections: chunks
    chunk_pos,             \* index of the section the chunker is at
    similarities,          \* find_most_similar_chunks: similarity of every chunk
    top_n,                 \* find_most_similar_chunks: n
    found_chunks,          \* find_most_similar_chunks: the chunks returned
    all_fixed_questions,   \* enhanced_fix_questions.main: the bank written
    num_newly_fixed,       \* enhanced_fix_questions.main: len(newly_fixed_questions)
    started,               \* generate_and_fix: the scripts started so far, in order
    returncodes,           \* generate_and_fix: the exit code of every script that ended
    test_bank_file,        \* output/test_bank.json: "absent", "old" (left by an
                           \* earlier run) or "new" (written by this run)
    enhanced_file,         \* output/enhanced_test_bank.json, likewise
    doc_toc,               \* the document: doc.get_toc(), the outline of the PDF
    doc_pages,             \* the document: page.get_text("text") of every page
    doc_spans,             \* the document: the text spans, in reading order
    emb_chunks,            \* embed_chunks: self.chunks, a list of dicts
    encode_calls           \* embed_chunks: the places of the chunks given to model.encode

tocVars == <<toc, page_count, structured_sections>>
quotaVars == <<num_questions, difficulty_targets, simple_counts>>
bankVars == <<sections, chunks, questions, difficulty_counts, chunks_used,
              sec_i, made, coverage_report>>
qcVars == <<final_questions, qc_report, stats_file, runs>>
genVars == <<gen_chunk, gen_stem, gen_topic, gen_correct, gen_wrong, gen_question>>
chunkVars == <<pages_text, section_map, text_chunks, chunk_pos>>
simVars == <<similarities, top_n, found_chunks>>
enhVars == <<all_fixed_questions, num_newly_fixed>>
pipeVars == <<started, returncodes, test_bank_file, enhanced_file>>
docVars == <<doc_toc, doc_pages, doc_spans>>
embVars == <<emb_chunks, encode_calls>>
moreVars == <<pipeVars, docVars, embVars>>
extVars == <<chunkVars, simVars, enhVars, moreVars>>

\* ------------------------------------------------------------------------
\* Generic helpers on sequences
\* ------------------------------------------------------------------------

Range(s) == {s[i] : i \in 1..Len(s)}

Min(a, b) == IF a < b THEN a ELSE b

\* ------------------------------------------------------------------------
\* Text.  A Python str is a TLA+ string; Len, \o and SubSeq work on it.
\* ------------------------------------------------------------------------

Char(s, i) == SubSeq(s, i, i)

\* str(n) / f"{n}" for n >= 0
Digits == "0123456789"

RECURSIVE Decimal(_)
Decimal(n) ==
    IF n < 10 THEN Char(Digits, n + 1)
    ELSE Decimal(n \div 10) \o Char(Digits, (n % 10) + 1)

IsDigit(c) == \E i \in 1..10 : Char(Digits, i) = c

UpperAlpha == "ABCDEFGHIJKLMNOPQRSTUVWXYZ"
LowerAlpha == "abcdefghijklmnopqrstuvwxyz"

IsUpper(c) == \E i \in 1..26 : Char(UpperAlpha, i) = c
IsLower(c) == \E i \in 1..26 : Char(LowerAlpha, i) = c

LowerChar(c) ==
    IF IsUpper(c)
       THEN Char(LowerAlpha, CHOOSE i \in 1..26 : Char(UpperAlpha, i) = c)
       ELSE c

\* str.lower(), halving the text so that the recursion stays shallow
RECURSIVE Lower(_)
Lower(s) ==
    IF s = "" THEN ""
    ELSE IF Len(s) = 1 THEN LowerChar(s)
    ELSE Lower(SubSeq(s, 1, Len(s) \div 2))
         \o Lower(SubSeq(s, Len(s) \div 2 + 1, Len(s)))

\* sub in s
Contains(s, sub) ==
    \E i \in 1..(Len(s) - Len(sub) + 1) : SubSeq(s, i, i + Len(sub) - 1) = sub

\* s.find(sub) + 1, or 0 when sub is not in s
Find(s, sub) ==
    IF Contains(s, sub)
       THEN CHOOSE i \in 1..(Len(s) - Len(sub) + 1) :
                /\ SubSeq(s, i, i + Len(sub) - 1) = sub
                /\ \A j \in 1..(i - 1) : SubSeq(s, j, j + Len(sub) - 1) # sub
       ELSE 0

\* s.replace(old, new) for a non-empty old: every non-overlapping
\* occurrence, left to right
RECURSIVE Replace(_, _, _)
Replace(s, old, new) ==
    LET i == Find(s, old)
    IN  IF i = 0 THEN s
        ELSE SubSeq(s, 1, i - 1) \o new
             \o Replace(SubSeq(s, i + Len(old), Len(s)), old, new)

IsSpace(c) == c = " " \/ c = "\n" \/ c = "\t"

\* s.strip()
RECURSIVE LStrip(_)
LStrip(s) == IF s # "" /\ IsSpace(Char(s, 1)) THEN LStrip(Tail(s)) ELSE s

RECURSIVE RStrip(_)
RStrip(s) ==
    IF s # "" /\ IsSpace(Char(s, Len(s)))
       THEN RStrip(SubSeq(s, 1, Len(s) - 1)) ELSE s

Strip(s) == LStrip(RStrip(s))

\* len(s.split()) : the number of maximal runs of non-space characters
WordCount(s) ==
    Cardinality({i \in 1..Len(s) :
                    /\ ~IsSpace(Char(s, i))
                    /\ (i = 1 \/ IsSpace(Char(s, i - 1)))})

\* ------------------------------------------------------------------------
\* pdf_processor.py : _structure_toc
\* ------------------------------------------------------------------------

MaxTocLen == 3
MaxLevel == 2
MaxPage == 3

\* re.sub(r'[^a-zA-Z0-9]', '', title)
IsAlnum(c) == IsUpper(c) \/ IsLower(c) \/ IsDigit(c)

RECURSIVE CleanTitle(_)
CleanTitle(title) ==
    IF title = "" THEN ""
    ELSE (IF IsAlnum(Char(title, 1)) THEN Char(title, 1) ELSE "")
         \o CleanTitle(Tail(title))

\* the titles a TOC entry may carry: a plain one and one that sanitizes to ""
TocTitles == {"a", "!"}

TocItems == [level : 1..MaxLevel, title : TocTitles, page : 1..MaxPage]

TocInputs == UNION {[1..n -> TocItems] : n \in 1..MaxTocLen}

\* None / "" of the source
NoId == ""

\* state threaded through the first pass
FirstPassInit ==
    [counter  |-> (NoId :> 0),
     parents  |-> [i \in 1..10 |-> NoId],
     sections |-> <<>>,
     map      |-> <<>>]

\* a counter that starts again at 1 for every item
NextCountAlwaysOne(counter, parent_id) == 1

\* section_id_counter[parent_id] after lines 158-160
NextCount(counter, parent_id) ==
    IF parent_id \in DOMAIN counter THEN counter[parent_id] + 1 ELSE 1

\* one iteration of the first loop (lines 153-190); current_parents is
\* 0-based in the source, so index level-1 there is index level here.
FirstPassItem(st, item, items, pageCount) ==
    LET level     == item.level
        parent_id == st.parents[level]
        count     == NextCount(st.counter, parent_id)
        base      == IF parent_id # NoId
                        THEN parent_id \o "." \o Decimal(count)
                        ELSE "Section" \o Decimal(count)
        clean     == CleanTitle(item.title)
        section_id == IF clean # "" THEN base \o "." \o clean ELSE base
        end_page  == IF item = items[Len(items)] THEN pageCount ELSE item.page
        section   == [id |-> section_id, title |-> item.title, level |-> level,
                      pageRange |-> <<item.page, end_page>>,
                      parent |-> parent_id, children |-> <<>>]
        idx       == Len(st.sections) + 1
    IN  [counter  |-> [k \in (DOMAIN st.counter) \cup {parent_id} |->
                          IF k = parent_id THEN count ELSE st.counter[k]],
         parents  |-> [st.parents EXCEPT ![level + 1] = section_id],
         sections |-> Append(st.sections, section),
         \* section_map[section_id] = section : the last section with an id wins
         map      |-> [k \in (DOMAIN st.map) \cup {section_id} |->
                          IF k = section_id THEN idx ELSE st.map[k]]]

RECURSIVE FirstPass(_, _, _, _)
FirstPass(st, k, items, pageCount) ==
    IF k > Len(items) THEN st
    ELSE FirstPass(FirstPassItem(st, items[k], items, pageCount), k + 1, items, pageCount)

\* end page of a section that is followed by one of the same or a higher
\* level (line 199)
EndBeforeNext(next_section) == next_section.pageRange[1] - 1

\* one iteration of the second loop (lines 193-204) on section i
SecondPassItem(secs, map, i) ==
    LET this_section == secs[i]
        next_section == secs[i + 1]
        secs1 == IF next_section.level <= this_section.level
                    THEN [secs EXCEPT ![i].pageRange[2] = EndBeforeNext(next_section)]
                    ELSE secs
    IN  IF this_section.parent # NoId /\ this_section.parent \in DOMAIN map
           THEN [secs1 EXCEPT ![map[this_section.parent]].children =
                                   Append(@, this_section.id)]
           ELSE secs1

RECURSIVE SecondPass(_, _, _)
SecondPass(secs, map, i) ==
    IF i > Len(secs) - 1 THEN secs
    ELSE SecondPass(SecondPassItem(secs, map, i), map, i + 1)

StructureToc(items, pageCount) ==
    LET st == FirstPass(FirstPassInit, 1, items, pageCount)
    IN  SecondPass(st.sections, st.map, 1)

TocIdle ==
    /\ toc = <<>>
    /\ page_count = 0
    /\ structured_sections = <<>>

TocInit ==
    /\ pc = "toc"
    /\ toc \in TocInputs
    /\ page_count \in MaxPage..(MaxPage + 1)
    /\ structured_sections = <<>>

\* TOCs for the section ids: up to three levels, with a title that sanitizes
\* to "" and a title that reads like a counter, both of which may repeat
MaxIdLen == 4
MaxIdLevel == 3

IdTitles == {"!", "1"}

IdItems == [level : 1..MaxIdLevel, title : IdTitles, page : {1}]

IdInputs == UNION {[1..n -> IdItems] : n \in 1..MaxIdLen}

TocIdInit ==
    /\ pc = "toc"
    /\ toc \in IdInputs
    /\ page_count = MaxPage
    /\ structured_sections = <<>>

StructureTocStep ==
    /\ pc = "toc"
    /\ structured_sections' = StructureToc(toc, page_count)
    /\ pc' = "structured"
    /\ UNCHANGED <<toc, page_count, quotaVars, bankVars, qcVars, genVars, extVars>>

\* ------------------------------------------------------------------------
\* Difficulty quotas (question_generator.py 351-362, simple_generator.py
\* 339-343).  n * 0.35 is an IEEE-754 double product: the constant is the
\* double nearest to the literal, the product is rounded to 53 bits
\* (round-half-even), and int() truncates.  Doubles are m * 2^-e with the
\* 53-bit mantissa m given as 16-bit limbs, least significant first.
\* ------------------------------------------------------------------------

MaxNum == 200

Half      == [m |-> <<0, 0, 0, 16>>, e |-> 53]              \* 0.5
Pct35     == [m |-> <<26214, 26214, 26214, 22>>, e |-> 54]  \* 0.35
Pct15     == [m |-> <<13107, 13107, 13107, 19>>, e |-> 55]  \* 0.15

\* limbs of n * m (n < 2^15), least significant first
RECURSIVE MulLimbs(_, _, _)
MulLimbs(n, m, carry) ==
    IF m = <<>> THEN (IF carry = 0 THEN <<>> ELSE <<carry>>)
    ELSE LET p == n * Head(m) + carry
         IN  <<p % 65536>> \o MulLimbs(n, Tail(m), p \div 65536)

RECURSIVE BitsOf(_, _)
BitsOf(x, width) ==
    IF width = 0 THEN <<>> ELSE <<x % 2>> \o BitsOf(x \div 2, width - 1)

RECURSIVE LimbBits(_)
LimbBits(ls) ==
    IF ls = <<>> THEN <<>> ELSE BitsOf(Head(ls), 16) \o LimbBits(Tail(ls))

\* drop the leading (most significant) zero bits
RECURSIVE Trim(_)
Trim(bits) ==
    IF bits # <<>> /\ bits[Len(bits)] = 0
       THEN Trim(SubSeq(bits, 1, Len(bits) - 1)) ELSE bits

RECURSIVE Incr(_)
Incr(bits) ==
    IF bits = <<>> THEN <<1>>
    ELSE IF Head(bits) = 0 THEN <<1>> \o Tail(bits)
    ELSE <<0>> \o Incr(Tail(bits))

RECURSIVE BitsValue(_)
BitsValue(bits) ==
    IF bits = <<>> THEN 0 ELSE Head(bits) + 2 * BitsValue(Tail(bits))

\* int(n * c) for an int n >= 0 and a double constant c
IntOfProduct(n, c) ==
    LET bits == Trim(LimbBits(MulLimbs(n, c.m, 0)))
        b    == Len(bits)
        s    == b - 53
        top  == IF s <= 0 THEN bits ELSE SubSeq(bits, s + 1, b)
        rnd  == s >= 1 /\ bits[s] = 1
        stk  == s >= 2 /\ \E i \in 1..(s - 1) : bits[i] = 1
        up   == rnd /\ (stk \/ top[1] = 1)
        q    == IF up THEN Incr(top) ELSE top
        \* the product is q * 2^(max(s,0) - e)
        drop == c.e - (IF s <= 0 THEN 0 ELSE s)
    IN  IF drop >= Len(q) THEN 0 ELSE BitsValue(SubSeq(q, drop + 1, Len(q)))

\* question_generator.py 353-362
RemainderToEasy(t, n) ==
    LET total == t.easy + t.medium + t.hard
    IN  IF total < n THEN [t EXCEPT !.easy = @ + (n - total)] ELSE t

DifficultyTargets(n) ==
    RemainderToEasy([easy   |-> IntOfProduct(n, Half),
                     medium |-> IntOfProduct(n, Pct35),
                     hard   |-> IntOfProduct(n, Pct15)], n)

\* simple_generator.py 340-343
SimpleCounts(n) ==
    LET easy_count   == IntOfProduct(n, Half)
        medium_count == IntOfProduct(n, Pct35)
    IN  [easy |-> easy_count, medium |-> medium_count,
         hard |-> n - easy_count - medium_count]

NoTargets == [easy |-> 0, medium |-> 0, hard |-> 0]

QuotaIdle ==
    /\ num_questions = 0
    /\ difficulty_targets = NoTargets
    /\ simple_counts = NoTargets

QuotaInit ==
    /\ pc = "quota"
    /\ num_questions \in 0..MaxNum
    /\ difficulty_targets = NoTargets
    /\ simple_counts = NoTargets

ComputeTargets ==
    /\ pc = "quota"
    /\ difficulty_targets' = DifficultyTargets(num_questions)
    /\ pc' = "quota_simple"
    /\ UNCHANGED <<num_questions, simple_counts, tocVars, bankVars, qcVars, genVars, extVars>>

ComputeSimpleCounts ==
    /\ pc = "quota_simple"
    /\ simple_counts' = SimpleCounts(num_questions)
    /\ pc' = "quota_done"
    /\ UNCHANGED <<num_questions, difficulty_targets, tocVars, bankVars, qcVars, genVars, extVars>>

\* ------------------------------------------------------------------------
\* question_generator.py : generate_test_bank, and main.py :
\* calculate_coverage.  A question is built by create_question_from_chunk
\* (modelled further down); here it carries the fields the bank's counts
\* depend on: its id, the chunk's section and the difficulty handed in.
\* ------------------------------------------------------------------------

MaxChunks == 2
MaxBankNum == 7

Difficulties == {"easy", "medium", "hard"}

\* the outline handed to the generator: two chapters, the first with a
\* subsection and a sub-subsection, the second without subsections
BankSections ==
    << [id |-> "Section1.a",         level |-> 1, parent |-> NoId],
       [id |-> "Section1.a.1.b",     level |-> 2, parent |-> "Section1.a"],
       [id |-> "Section1.a.1.b.1.c", level |-> 3, parent |-> "Section1.a.1.b"],
       [id |-> "Section2.d",         level |-> 1, parent |-> NoId] >>

SectionIds(secs) == {secs[i].id : i \in 1..Len(secs)}

ChunkInputs ==
    UNION {{[i \in 1..k |-> [id |-> i, section |-> f[i]]] :
               f \in [1..k -> SectionIds(BankSections)]} : k \in 0..MaxChunks}

\* line 375 as it would be with a chapter minimum of 7
MinQuestionsSeven(level) == IF level = 1 THEN 7 ELSE 1

\* line 375
MinQuestions(level) == IF level = 1 THEN 8 ELSE 1

\* line 378
SectionChunks(cs, section) == {i \in 1..Len(cs) : cs[i].section = section.id}

\* lines 385-387
AvailableChunks(cs, section, used) ==
    LET section_chunks == SectionChunks(cs, section)
        unused == {i \in section_chunks : cs[i].id \notin used}
    IN  IF unused = {} THEN section_chunks ELSE unused

\* lines 393-394 and 415-416
RemainingDifficulties(counts, targets) ==
    {d \in Difficulties : counts[d] < targets[d]}

\* lines 396-399 : the first pass defaults to easy
FirstPassDifficulties(counts, targets) ==
    IF RemainingDifficulties(counts, targets) = {} THEN {"easy"}
    ELSE RemainingDifficulties(counts, targets)

\* lines 418-425 : the second pass draws from the weighted distribution
SecondPassDifficulties(counts, targets) ==
    IF RemainingDifficulties(counts, targets) = {} THEN Difficulties
    ELSE RemainingDifficulties(counts, targets)

\* what create_question_from_chunk(chunk, question_id, difficulty) hands
\* to the bank (lines 331-335)
BankQuestion(chunk, question_id, difficulty) ==
    [questionID |-> question_id, sectionID |-> chunk.section,
     difficulty |-> difficulty]

\* lines 402-407 / 428-433
AddQuestion(chunk, difficulty) ==
    /\ questions' = Append(questions,
                           BankQuestion(chunk, Len(questions) + 1, difficulty))
    /\ difficulty_counts' = [difficulty_counts EXCEPT ![difficulty] = @ + 1]

BankIdle ==
    /\ sections = <<>>
    /\ chunks = <<>>
    /\ questions = <<>>
    /\ difficulty_counts = NoTargets
    /\ chunks_used = {}
    /\ sec_i = 0
    /\ made = 0
    /\ coverage_report = <<>>

BankInit ==
    /\ pc = "bank"
    /\ sections = BankSections
    /\ chunks \in ChunkInputs
    /\ num_questions \in 1..MaxBankNum
    /\ difficulty_targets = NoTargets
    /\ simple_counts = NoTargets
    /\ questions = <<>>
    /\ difficulty_counts = NoTargets
    /\ chunks_used = {}
    /\ sec_i = 0
    /\ made = 0
    /\ coverage_report = <<>>

\* lines 348-370
StartBank ==
    /\ pc = "bank"
    /\ difficulty_targets' = DifficultyTargets(num_questions)
    /\ sec_i' = 1
    /\ pc' = "first_pass"
    /\ UNCHANGED <<num_questions, simple_counts, sections, chunks, questions,
                   difficulty_counts, chunks_used, made, coverage_report, tocVars, qcVars, genVars, extVars>>

\* lines 379-380 : a section without chunks is skipped
FirstPassSkip ==
    /\ pc = "first_pass"
    /\ sec_i <= Len(sections)
    /\ SectionChunks(chunks, sections[sec_i]) = {}
    /\ sec_i' = sec_i + 1
    /\ UNCHANGED <<pc, quotaVars, sections, chunks, questions, difficulty_counts,
                   chunks_used, made, coverage_report, tocVars, qcVars, genVars, extVars>>

\* one iteration of the loop of lines 383-407
FirstPassQuestion ==
    /\ pc = "first_pass"
    /\ sec_i <= Len(sections)
    /\ SectionChunks(chunks, sections[sec_i]) # {}
    /\ made < MinQuestions(sections[sec_i].level)
    /\ \E c \in AvailableChunks(chunks, sections[sec_i], chunks_used) :
       \E d \in FirstPassDifficulties(difficulty_counts, difficulty_targets) :
          /\ chunks_used' = chunks_used \cup {chunks[c].id}
          /\ AddQuestion(chunks[c], d)
    /\ made' = made + 1
    /\ UNCHANGED <<pc, quotaVars, sections, chunks, sec_i, coverage_report, tocVars, qcVars, genVars, extVars>>

\* the loop of line 383 is exhausted: on to the next section
FirstPassNext ==
    /\ pc = "first_pass"
    /\ sec_i <= Len(sections)
    /\ SectionChunks(chunks, sections[sec_i]) # {}
    /\ made = MinQuestions(sections[sec_i].level)
    /\ sec_i' = sec_i + 1
    /\ made' = 0
    /\ UNCHANGED <<pc, quotaVars, sections, chunks, questions, difficulty_counts,
                   chunks_used, coverage_report, tocVars, qcVars, genVars, extVars>>

\* the loop of line 373 is exhausted
FirstPassEnd ==
    /\ pc = "first_pass"
    /\ sec_i > Len(sections)
    /\ pc' = "second_pass"
    /\ UNCHANGED <<quotaVars, bankVars, tocVars, qcVars, genVars, extVars>>

\* one iteration of the loop of lines 410-433
SecondPassQuestion ==
    /\ pc = "second_pass"
    /\ Len(questions) < num_questions
    /\ chunks # <<>>
    /\ \E c \in 1..Len(chunks) :
       \E d \in SecondPassDifficulties(difficulty_counts, difficulty_targets) :
          AddQuestion(chunks[c], d)
    /\ UNCHANGED <<pc, quotaVars, sections, chunks, chunks_used, sec_i, made,
                   coverage_report, tocVars, qcVars, genVars, extVars>>

\* line 412 : random.choice on an empty list raises IndexError
SecondPassCrash ==
    /\ pc = "second_pass"
    /\ Len(questions) < num_questions
    /\ chunks = <<>>
    /\ pc' = "crashed"
    /\ UNCHANGED <<quotaVars, bankVars, tocVars, qcVars, genVars, extVars>>

\* line 435
ReturnBank ==
    /\ pc = "second_pass"
    /\ Len(questions) >= num_questions
    /\ pc' = "bank_done"
    /\ UNCHANGED <<quotaVars, bankVars, tocVars, qcVars, genVars, extVars>>

\* main.py : calculate_coverage.  A percentage a / b * 100 is kept as the
\* pair <<a * 100, b>>.
Percent(a, b) == <<a * 100, b>>

IsZeroPercent(p) == p[1] = 0

CountQuestions(qs, section_id, difficulty) ==
    Cardinality({i \in 1..Len(qs) :
                    /\ qs[i].sectionID = section_id
                    /\ (difficulty = "any" \/ qs[i].difficulty = difficulty)})

CountDifficulty(qs, difficulty) ==
    Cardinality({i \in 1..Len(qs) : qs[i].difficulty = difficulty})

\* lines 287-299
OverallCoverage(qs, secs) ==
    LET level2 == {i \in 1..Len(secs) : secs[i].level = 2}
        with_q == {i \in level2 : CountQuestions(qs, secs[i].id, "any") > 0}
    IN  [totalQuestions  |-> Len(qs),
         easyQuestions   |-> CountDifficulty(qs, "easy"),
         mediumQuestions |-> CountDifficulty(qs, "medium"),
         hardQuestions   |-> CountDifficulty(qs, "hard"),
         coveragePercent |-> IF level2 # {}
                                THEN Percent(Cardinality(with_q), Cardinality(level2))
                                ELSE Percent(1, 1)]

\* lines 302-324
SectionCoverage(qs, secs, section) ==
    LET subsections == {i \in 1..Len(secs) : secs[i].parent = section.id}
        with_q == {i \in subsections : CountQuestions(qs, secs[i].id, "any") > 0}
        total == CountQuestions(qs, section.id, "any")
    IN  [totalQuestions  |-> total,
         easyQuestions   |-> CountQuestions(qs, section.id, "easy"),
         mediumQuestions |-> CountQuestions(qs, section.id, "medium"),
         hardQuestions   |-> CountQuestions(qs, section.id, "hard"),
         coveragePercent |->
             IF section.level = 1
                THEN (IF subsections # {}
                         THEN Percent(Cardinality(with_q), Cardinality(subsections))
                         ELSE Percent(1, 1))
                ELSE (IF total > 0 THEN Percent(1, 1) ELSE Percent(0, 1))]

CalculateCoverage(qs, secs) ==
    LET reported == {i \in 1..Len(secs) : secs[i].level <= 2}
        keys == {"overall"} \cup {secs[i].id : i \in reported}
    IN  [k \in keys |->
            IF k \in {secs[i].id : i \in reported}
               THEN SectionCoverage(qs, secs,
                        secs[CHOOSE i \in reported : secs[i].id = k])
               ELSE OverallCoverage(qs, secs)]

\* main.py line 345
CalculateCoverageStep ==
    /\ pc = "bank_done"
    /\ coverage_report' = CalculateCoverage(questions, sections)
    /\ pc' = "covered"
    /\ UNCHANGED <<quotaVars, sections, chunks, questions, difficulty_counts,
                   chunks_used, sec_i, made, tocVars, qcVars, genVars, extVars>>

BankNext ==
    \/ StartBank
    \/ FirstPassSkip
    \/ FirstPassQuestion
    \/ FirstPassNext
    \/ FirstPassEnd
    \/ SecondPassQuestion
    \/ SecondPassCrash
    \/ ReturnBank
    \/ CalculateCoverageStep

\* ------------------------------------------------------------------------
\* question_qc.py : main, regenerate_questions, extract_topic,
\* update_coverage_report
\* ------------------------------------------------------------------------

MaxBankLen == 2
MaxRuns == 2

\* lines 30-35
banned_phrases ==
    << "Follow Kentucky guidelines for",
       "There are no specific rules for",
       "Wait for other drivers to decide about",
       "Ignore the" >>

\* lines 155-196, in insertion order
concrete_facts ==
    << [key |-> "stop sign regulations",
        correct |-> "Come to a complete stop, yield to traffic with the right of way, then proceed when safe",
        wrong |-> << "Slow down enough to check for traffic but rolling stops are acceptable",
                     "Stop only when other vehicles are present",
                     "Stop for at least 5 seconds before proceeding regardless of traffic" >>],
       [key |-> "speed limits in school zones",
        correct |-> "Reduce speed to 25 mph when children are present",
        wrong |-> << "Reduce speed to 15 mph at all times",
                     "Maintain normal speed if no crossing guards are present",
                     "Speed limits apply only during school hours, not after-school activities" >>],
       [key |-> "parallel parking technique",
        correct |-> "Position your car parallel to the car in front, signal, reverse slowly while turning the wheel toward the curb",
        wrong |-> << "Pull directly into the space front-first",
                     "Position your car at a 45-degree angle to the curb before backing in",
                     "Stop halfway into the spot and adjust by pulling forward and backward repeatedly" >>],
       [key |-> "warning signs for curves",
        correct |-> "Slow down to the recommended speed posted or a safe speed for the curve",
        wrong |-> << "Maintain your current speed throughout the curve",
                     "Come to a complete stop before navigating the curve",
                     "Accelerate through the curve to maintain control" >>],
       [key |-> "license renewal procedure",
        correct |-> "Present your current license, pass a vision test, and pay the renewal fee",
        wrong |-> << "Submit your renewal application online without visiting a license office",
                     "Retake the full written and driving test for each renewal",
                     "Renewals are automatic and require no action from the driver" >>] >>

\* lines 199-206
generic_concrete_facts ==
    [key |-> "",
     correct |-> "Follow specific procedures outlined on page {page} of the Kentucky Driver's Manual",
     wrong |-> << "Use personal judgment rather than following official guidelines",
                  "The procedure varies by county and is not standardized across Kentucky",
                  "There is no official procedure outlined in the Kentucky Driver's Manual" >>]

\* str(n) for any int
Str(n) == IF n < 0 THEN "-" \o Decimal(-n) ELSE Decimal(n)

\* lines 44-56 as they would be if the phrases were compared without regard
\* to letter case
HasBannedPhraseAnyCase(question) ==
    \E k \in 1..Len(banned_phrases) :
        \/ Contains(Lower(question.questionText), Lower(banned_phrases[k]))
        \/ \E c \in 1..Len(question.choices) :
              Contains(Lower(question.choices[c].text), Lower(banned_phrases[k]))

\* lines 44-56
HasBannedPhrase(question) ==
    \E k \in 1..Len(banned_phrases) :
        \/ Contains(question.questionText, banned_phrases[k])
        \/ \E c \in 1..Len(question.choices) :
              Contains(question.choices[c].text, banned_phrases[k])

\* lines 69-75
SpecificAnswer(question) ==
    LET correct == {c \in 1..Len(question.choices) : question.choices[c].isCorrect}
    IN  correct # {} =>
            LET first == CHOOSE c \in correct : \A d \in correct : c <= d
            IN  \A k \in 1..Len(banned_phrases) :
                    ~Contains(question.choices[first].text, banned_phrases[k])

\* lines 59-66 and 78 : TRUE when the question goes to fixed_questions
PassesQC(question) ==
    LET stem_too_long == WordCount(question.questionText) > 35
        choices_too_long ==
            \E c \in 1..Len(question.choices) :
                WordCount(question.choices[c].text) > 20
        has_page_ref == question.pageRef > 0
    IN  ~(\/ HasBannedPhrase(question)
          \/ stem_too_long
          \/ choices_too_long
          \/ ~has_page_ref
          \/ ~SpecificAnswer(question))

\* re.search(r"procedure for ([^?]+)", text): group 1 of the leftmost match,
\* or "" when there is none (a match has at least one character)
ProcedureFor == "procedure for "

UpToQuestionMark(s) ==
    IF Contains(s, "?") THEN SubSeq(s, 1, Find(s, "?") - 1) ELSE s

TopicMatch(text) ==
    LET n == Len(ProcedureFor)
        starts == {i \in 1..(Len(text) - n) :
                      /\ SubSeq(text, i, i + n - 1) = ProcedureFor
                      /\ Char(text, i + n) # "?"}
    IN  IF starts = {} THEN ""
        ELSE LET i == CHOOSE a \in starts : \A b \in starts : a <= b
             IN  UpToQuestionMark(SubSeq(text, i + n, Len(text)))

\* s.split(".")[-1]
RECURSIVE LastPart(_)
LastPart(s) ==
    IF Contains(s, ".") THEN LastPart(SubSeq(s, Find(s, ".") + 1, Len(s))) ELSE s

\* lines 266-270 : the first choice that names a topic, as a one-element
\* sequence, or <<>>
RECURSIVE TopicFromChoices(_)
TopicFromChoices(choices) ==
    IF choices = <<>> THEN <<>>
    ELSE LET text == Head(choices).text
         IN  IF Contains(text, "Follow Kentucky guidelines for ")
                THEN <<Replace(text, "Follow Kentucky guidelines for ", "")>>
             ELSE IF Contains(text, "Ignore the ") /\ Contains(text, " regulation")
                THEN <<Replace(Replace(text, "Ignore the ", ""), " regulation", "")>>
             ELSE TopicFromChoices(Tail(choices))

\* lines 258-278
extract_topic(question) ==
    IF TopicMatch(question.questionText) # ""
       THEN Strip(TopicMatch(question.questionText))
    ELSE IF TopicFromChoices(question.choices) # <<>>
       THEN TopicFromChoices(question.choices)[1]
    ELSE IF Contains(question.sectionID, ".")
       THEN Lower(LastPart(question.sectionID))
    ELSE "driving procedures"

\* lines 213-223 : exact match, else the first key that contains the topic or
\* is contained in it, else the generic entry
LookupFacts(topic) ==
    LET exact   == {k \in 1..Len(concrete_facts) : concrete_facts[k].key = topic}
        partial == {k \in 1..Len(concrete_facts) :
                       \/ Contains(topic, concrete_facts[k].key)
                       \/ Contains(concrete_facts[k].key, topic)}
    IN  IF exact # {} THEN concrete_facts[CHOOSE k \in exact : TRUE]
        ELSE IF partial # {}
           THEN concrete_facts[CHOOSE k \in partial : \A j \in partial : k <= j]
        ELSE generic_concrete_facts

\* lines 226-228
CorrectAnswer(facts, question) ==
    IF Contains(facts.correct, "{page}")
       THEN Replace(facts.correct, "{page}", Str(question.pageRef))
       ELSE facts.correct

\* line 250
NeedsStemFix(text) ==
    \/ Contains(text, "Follow Kentucky guidelines")
    \/ Contains(text, "There are no specific rules")
    \/ Contains(text, "Wait for other drivers")

\* line 251
QuestionTypes ==
    {"What is", "According to the Kentucky Driver's Manual, what is",
     "Which statement correctly describes"}

\* the outcomes of random.shuffle on a list of four
Perms4 == {p \in [1..4 -> 1..4] : \A i, j \in 1..4 : i # j => p[i] # p[j]}

Labels == "ABCD"

\* choices whose first one is marked correct, whatever the shuffle
MakeChoicesFirstMarked(all_answers, perm, correct_answer) ==
    [i \in 1..4 |->
        [label     |-> Char(Labels, i),
         text      |-> all_answers[perm[i]],
         isCorrect |-> i = 1]]

\* lines 232-241 : the choices built from the shuffled answers
MakeChoices(all_answers, perm, correct_answer) ==
    [i \in 1..4 |->
        [label     |-> Char(Labels, i),
         text      |-> all_answers[perm[i]],
         isCorrect |-> all_answers[perm[i]] = correct_answer]]

\* line 252
FixedStem(question_type, topic) ==
    question_type \o " the proper procedure for " \o topic \o "?"

\* line 247
Explanation(question, correct_answer) ==
    "According to the Kentucky Driver's Manual on page "
        \o Str(question.pageRef) \o ", " \o correct_answer \o "."

\* lines 210-230 and 247: what one iteration of the loop computes before
\* its random draws
NewContent(question) ==
    LET topic          == extract_topic(question)
        facts          == LookupFacts(topic)
        correct_answer == CorrectAnswer(facts, question)
    IN  [topic          |-> topic,
         correct_answer |-> correct_answer,
         all_answers    |-> <<correct_answer>> \o facts.wrong,
         explanation    |-> Explanation(question, correct_answer),
         fix_stem       |-> NeedsStemFix(question.questionText)]

\* lines 232-254: the question updated in place, for one outcome of the
\* shuffle and of the choice of question_type
Regenerated(question, new, perm, question_type) ==
    [question EXCEPT
        !.choices = MakeChoices(new.all_answers, perm, new.correct_answer),
        !.explanation = new.explanation,
        !.questionText = IF new.fix_stem
                            THEN FixedStem(question_type, new.topic)
                            ELSE question.questionText]

\* one iteration of the loop of lines 208-254: everything the question may
\* come out as (question_type is drawn only when the stem is rewritten)
RegenOutcomes(question) ==
    UNION { {Regenerated(question, new, perm, question_type) :
                perm \in Perms4,
                question_type \in IF new.fix_stem THEN QuestionTypes ELSE {""}} :
            new \in {NewContent(question)} }

\* everything regenerate_questions may return
RECURSIVE RegenLists(_)
RegenLists(to_regenerate) ==
    IF to_regenerate = <<>> THEN {<<>>}
    ELSE {<<r>> \o rest : r \in RegenOutcomes(Head(to_regenerate)),
                          rest \in RegenLists(Tail(to_regenerate))}

FailsQC(question) == ~PassesQC(question)

\* line 90
CombineQuestions(fixed_questions, regenerated_questions) ==
    fixed_questions \o regenerated_questions

\* lines 118-128
QcReport(loaded, fixed_questions, regenerated_questions, final) ==
    [total_questions       |-> Len(loaded),
     passing_questions     |-> Len(fixed_questions),
     regenerated_questions |-> Len(regenerated_questions),
     final_questions       |-> Len(final),
     difficulty_distribution |->
         [d \in Difficulties |-> CountDifficulty(final, d)]]

\* lines 282-312, without the pageRange of a section, which the report does
\* not read; parent is "" where the section has none
qc_sections ==
    << [id |-> "Licensing", title |-> "Driver Licensing Information", level |-> 1, parent |-> ""],
       [id |-> "Licensing.Requirements", title |-> "Licensing Requirements", level |-> 2, parent |-> "Licensing"],
       [id |-> "Licensing.Testing", title |-> "Testing Procedures", level |-> 2, parent |-> "Licensing"],
       [id |-> "Licensing.Restrictions", title |-> "License Restrictions", level |-> 2, parent |-> "Licensing"],
       [id |-> "Licensing.Renewals", title |-> "License Renewals", level |-> 2, parent |-> "Licensing"],
       [id |-> "RulesOfTheRoad", title |-> "Rules of the Road", level |-> 1, parent |-> ""],
       [id |-> "RulesOfTheRoad.RightOfWay", title |-> "Right of Way", level |-> 2, parent |-> "RulesOfTheRoad"],
       [id |-> "RulesOfTheRoad.Speed", title |-> "Speed Limits", level |-> 2, parent |-> "RulesOfTheRoad"],
       [id |-> "RulesOfTheRoad.Turning", title |-> "Turning and Lane Changes", level |-> 2, parent |-> "RulesOfTheRoad"],
       [id |-> "RulesOfTheRoad.Parking", title |-> "Parking Rules", level |-> 2, parent |-> "RulesOfTheRoad"],
       [id |-> "Signs", title |-> "Traffic Signs and Signals", level |-> 1, parent |-> ""],
       [id |-> "Signs.Regulatory", title |-> "Regulatory Signs", level |-> 2, parent |-> "Signs"],
       [id |-> "Signs.Warning", title |-> "Warning Signs", level |-> 2, parent |-> "Signs"],
       [id |-> "Signs.Guide", title |-> "Guide Signs", level |-> 2, parent |-> "Signs"],
       [id |-> "Signs.Signals", title |-> "Traffic Signals", level |-> 2, parent |-> "Signs"],
       [id |-> "Safety", title |-> "Driver Safety", level |-> 1, parent |-> ""],
       [id |-> "Safety.Belts", title |-> "Seat Belts and Restraints", level |-> 2, parent |-> "Safety"],
       [id |-> "Safety.DUI", title |-> "DUI and Alcohol", level |-> 2, parent |-> "Safety"],
       [id |-> "Safety.Distracted", title |-> "Distracted Driving", level |-> 2, parent |-> "Safety"],
       [id |-> "Safety.Defensive", title |-> "Defensive Driving", level |-> 2, parent |-> "Safety"],
       [id |-> "Emergencies", title |-> "Handling Emergencies", level |-> 1, parent |-> ""],
       [id |-> "Emergencies.Breakdown", title |-> "Vehicle Breakdowns", level |-> 2, parent |-> "Emergencies"],
       [id |-> "Emergencies.Crash", title |-> "Crash Procedures", level |-> 2, parent |-> "Emergencies"],
       [id |-> "Emergencies.Weather", title |-> "Bad Weather Driving", level |-> 2, parent |-> "Emergencies"],
       [id |-> "Emergencies.Medical", title |-> "Medical Emergencies", level |-> 2, parent |-> "Emergencies"] >>

\* lines 327-330 : section_id.split(".")[0]
TopLevelId(section_id) ==
    IF Contains(section_id, ".")
       THEN SubSeq(section_id, 1, Find(section_id, ".") - 1)
       ELSE section_id

\* lines 322-335 : the keys of section_counts
CountedSections(qs) ==
    {TopLevelId(qs[i].sectionID) : i \in 1..Len(qs)}
        \cup {qs[i].sectionID : i \in 1..Len(qs)}

\* lines 322-335 : section_counts[s_id], where every question adds one for
\* each member of the list [top_level_id, section_id] that is s_id
SectionCounts(qs, s_id) ==
    LET times(difficulty) ==
            Cardinality({i \in 1..Len(qs) :
                            /\ TopLevelId(qs[i].sectionID) = s_id
                            /\ difficulty \in {"total", qs[i].difficulty}})
            + Cardinality({i \in 1..Len(qs) :
                              /\ qs[i].sectionID = s_id
                              /\ difficulty \in {"total", qs[i].difficulty}})
    IN  [total  |-> times("total"),
         easy   |-> times("easy"),
         medium |-> times("medium"),
         hard   |-> times("hard")]

\* lines 338-371 : the coverage report of a bank over a list of sections
CoverageReport(qs, secs) ==
    LET counted == CountedSections(qs)
        level2_sections == {k \in 1..Len(secs) : secs[k].level = 2}
        level2_covered  == {k \in level2_sections :
                               /\ secs[k].id \in counted
                               /\ SectionCounts(qs, secs[k].id).total >= 1}
        coverage_percent == IF level2_sections # {}
                               THEN Percent(Cardinality(level2_covered),
                                            Cardinality(level2_sections))
                               ELSE Percent(1, 1)
        level1 == {k \in 1..Len(secs) : secs[k].level = 1 /\ secs[k].id \in counted}
        entry(k) ==
            LET subsection_ids == {secs[j].id : j \in {j \in 1..Len(secs) :
                                                         secs[j].parent = secs[k].id}}
                counts == SectionCounts(qs, secs[k].id)
            IN  [totalQuestions  |-> counts.total,
                 easyQuestions   |-> counts.easy,
                 mediumQuestions |-> counts.medium,
                 hardQuestions   |-> counts.hard,
                 coveragePercent |->
                     IF subsection_ids # {}
                        THEN Percent(Cardinality(subsection_ids \cap counted),
                                     Cardinality(subsection_ids))
                        ELSE Percent(1, 1),
                 title           |-> secs[k].title]
    IN  [key \in {"overall"} \cup {secs[k].id : k \in level1} |->
            IF key = "overall"
               THEN [totalQuestions  |-> Len(qs),
                     easyQuestions   |-> CountDifficulty(qs, "easy"),
                     mediumQuestions |-> CountDifficulty(qs, "medium"),
                     hardQuestions   |-> CountDifficulty(qs, "hard"),
                     coveragePercent |-> coverage_percent]
               ELSE entry(CHOOSE k \in level1 : secs[k].id = key)]

\* lines 280-371
update_coverage_report(qs) == CoverageReport(qs, qc_sections)

\* lines 379-427 : the counts and the coverage line of output/stats.txt;
\* the coverage line is the text of line 426, whatever the bank.  (The
\* averages and the hardest section are not represented.)
update_stats_file(qs) ==
    [total_questions  |-> Len(qs),
     easy_count       |-> CountDifficulty(qs, "easy"),
     medium_count     |-> CountDifficulty(qs, "medium"),
     hard_count       |-> CountDifficulty(qs, "hard"),
     coverage_percent |-> Percent(1, 1),
     headings         |-> 20]

NoReport == <<>>

QCIdle ==
    /\ final_questions = <<>>
    /\ qc_report = NoReport
    /\ stats_file = NoReport
    /\ runs = 0

\* question_qc.main, lines 24-137
QCMain ==
    /\ pc = "qc_loaded"
    /\ \E fixed_questions \in {SelectSeq(questions, PassesQC)},
          questions_to_regenerate \in {SelectSeq(questions, FailsQC)} :
          \E regenerated_questions \in RegenLists(questions_to_regenerate) :
             \E final \in {CombineQuestions(fixed_questions, regenerated_questions)} :
                /\ final_questions' = final
                /\ qc_report' = QcReport(questions, fixed_questions,
                                         regenerated_questions, final)
                /\ coverage_report' = update_coverage_report(final)
                /\ stats_file' = update_stats_file(final)
    /\ runs' = runs + 1
    /\ pc' = "qc_done"
    /\ UNCHANGED <<quotaVars, sections, chunks, questions, difficulty_counts,
                   chunks_used, sec_i, made, tocVars, genVars, extVars>>

\* the validator is run again on the bank it wrote (--output defaults to
\* the input path, and generate_and_fix passes the same path for both)
QCRunAgain ==
    /\ pc = "qc_done"
    /\ runs < MaxRuns
    /\ questions' = final_questions
    /\ runs' = runs
    /\ pc' = "qc_loaded"
    /\ UNCHANGED <<quotaVars, sections, chunks, difficulty_counts, chunks_used,
                   sec_i, made, coverage_report, tocVars, final_questions,
                   qc_report, stats_file, genVars, extVars>>

\* ---- the banks the validator is run on ----

MaxFailing == 1

\* a Question as simple_generator.Question.to_dict writes it (lines 36-49)
Q(id, section, difficulty, stem, texts, correct, page) ==
    [questionID    |-> id,
     sectionID     |-> section,
     difficulty    |-> difficulty,
     questionText  |-> stem,
     choices       |-> [i \in 1..4 |-> [label     |-> Char(Labels, i),
                                        text      |-> texts[i],
                                        isCorrect |-> i = correct]],
     explanation   |-> "This information can be found on page " \o Str(page)
                           \o " of the Kentucky Driver's Manual.",
     pageRef       |-> page,
     tags          |-> <<"general">>,
     requiresImage |-> FALSE]

\* questions that pass every check of main
PassingPool ==
    << Q("KDM-00001", "Section2.Speed", "easy",
         "What is the speed limit in a school zone when children are present?",
         <<"15 mph", "25 mph", "35 mph", "45 mph">>, 2, 12),
       Q("KDM-00002", "Section3.Parking", "medium",
         "What should a driver do before parking on a hill?",
         <<"follow kentucky guidelines for parking", "Turn the wheels toward the curb",
           "Leave the engine running", "Park in the travel lane">>, 2, 36),
       Q("KDM-00003", "Section1.Signs", "easy",
         "What is the proper procedure for stop sign regulations?",
         <<concrete_facts[1].wrong[1], concrete_facts[1].correct,
           concrete_facts[1].wrong[2], concrete_facts[1].wrong[3]>>, 2, 20),
       Q("KDM-00004", "Section4.Night", "hard",
         "When you are driving on a two lane road at night in heavy rain and an oncoming vehicle fails to dim its bright headlights as it comes toward you what should you do to stay?",
         <<"Flash your bright headlights", "Look toward the right edge of your lane",
           "Speed up", "Stop in your lane">>, 2, 41),
       Q("KDM-00005", "Section4.Night", "hard",
         "What should you do when an oncoming vehicle does not dim its headlights?",
         <<"Slow down and look toward the right edge of your lane until the oncoming vehicle has passed you by completely",
           "Flash your bright headlights", "Speed up", "Stop in your lane">>, 1, 1),
       Q("KDM-00006", "Section5", "medium",
         "Which of the following correctly describes the right of way at a four way stop in Kentucky?",
         <<"The largest vehicle goes first", "The fastest vehicle goes first",
           "Nobody has the right of way", "The first vehicle to stop goes first">>, 4, 27) >>

\* questions that fail a check of main: a banned stem, no page reference,
\* a banned phrase inside the topic of the stem, and the filler answers of
\* simple_generator (lines 435-440)
FailingPool ==
    << Q("KDM-00007", "Section3.Parking", "easy",
         "Follow Kentucky guidelines for parking",
         <<"Park facing traffic", "Park within 12 inches of the curb",
           "Park on the sidewalk", "Park in the crosswalk">>, 2, 36),
       Q("KDM-00008", "Section6", "medium",
         "What does a flashing red light mean?",
         <<"Slow down", "Stop, then go when safe", "Speed up", "Turn around">>, 2, 0),
       Q("KDM-00009", "Section3.Parking", "easy",
         "What is the proper procedure for drivers told to Follow Kentucky guidelines for parking?",
         <<"Park facing traffic", "Park within 12 inches of the curb",
           "Park on the sidewalk", "Park in the crosswalk">>, 2, 36),
       Q("KDM-00010", "Section3.Parking", "hard",
         "According to the Kentucky Driver's Manual, what is the correct procedure for parallel parking technique?",
         <<"Ignore the parallel parking technique regulation",
           "Follow Kentucky guidelines for parallel parking technique",
           "Wait for other drivers to decide about parallel parking technique",
           "There are no specific rules for parallel parking technique">>, 2, 38) >>

\* the banks of at most maxLen distinct questions of a pool, in any order
Banks(pool, maxLen) ==
    LET picks == UNION {[1..n -> 1..Len(pool)] : n \in 1..maxLen}
        distinct(b) == \A i, j \in DOMAIN b : i # j => b[i] # b[j]
    IN  {[i \in DOMAIN b |-> pool[b[i]]] : b \in {c \in picks : distinct(c)}}

NumFailing(bank) == Cardinality({i \in DOMAIN bank : FailsQC(bank[i])})

\* question_qc.main line 24-25 has loaded the bank
QCLoaded(pool) ==
    /\ pc = "qc_loaded"
    /\ questions \in Banks(pool, MaxBankLen)
    /\ sections = <<>>
    /\ chunks = <<>>
    /\ difficulty_counts = NoTargets
    /\ chunks_used = {}
    /\ sec_i = 0
    /\ made = 0
    /\ coverage_report = <<>>
    /\ QCIdle

\* ---- simple_generator.main : the coverage report of the bank it built ----

\* simple_generator.main lines 68-98 : the same list of sections
simple_sections == qc_sections

\* simple_generator.main lines 501-562 : the statements of
\* update_coverage_report over the Question objects of the generator
SimpleCoverageReport(qs) == CoverageReport(qs, simple_sections)

\* simple_generator.main, lines 497-562 : the validated bank is counted
SimpleCoverage ==
    /\ pc = "sg_validated"
    /\ coverage_report' = SimpleCoverageReport(questions)
    /\ pc' = "sg_covered"
    /\ UNCHANGED <<quotaVars, sections, chunks, questions, difficulty_counts,
                   chunks_used, sec_i, made, tocVars, qcVars, genVars, extVars>>

\* ---- the banks a coverage report is built from ----

MaxCovLen == 2

\* sections simple_generator writes into its questions
CovSections ==
    {"RulesOfTheRoad", "RulesOfTheRoad.RightOfWay", "Signs.Signals", "Safety.DUI"}

\* a question that passes every check of question_qc.main
CovQuestion(n, section, difficulty) ==
    Q("KDM-0000" \o Str(n), section, difficulty, "What does this rule require?",
      <<"Stop", "Yield", "Slow down", "Speed up">>, 1, 30)

CovBanks ==
    UNION { {[i \in 1..n |-> CovQuestion(i, f[i][1], f[i][2])] :
                f \in [1..n -> CovSections \X Difficulties]} :
            n \in 1..MaxCovLen }

\* question_qc.main has loaded a bank, or simple_generator.main has built
\* and validated one
CovInit ==
    /\ pc \in {"qc_loaded", "sg_validated"}
    /\ questions \in CovBanks
    /\ sections = <<>>
    /\ chunks = <<>>
    /\ difficulty_counts = NoTargets
    /\ chunks_used = {}
    /\ sec_i = 0
    /\ made = 0
    /\ coverage_report = <<>>
    /\ QCIdle

CovNext == QCMain \/ SimpleCoverage

\* ------------------------------------------------------------------------
\* question_generator.py : create_question_from_chunk, generate_wrong_answers
\* ------------------------------------------------------------------------

MaxGenChunks == 2

\* re.split(r'[.!?]', text)
RECURSIVE SplitSentences(_)
SplitSentences(text) ==
    LET ends == {i \in 1..Len(text) : Char(text, i) \in {".", "!", "?"}}
    IN  IF ends = {} THEN <<text>>
        ELSE LET i == CHOOSE a \in ends : \A b \in ends : a <= b
             IN  <<SubSeq(text, 1, i - 1)>>
                 \o SplitSentences(SubSeq(text, i + 1, Len(text)))

\* s.split()
RECURSIVE Words(_)
Words(s) ==
    LET t == LStrip(s)
        spaces == {i \in 1..Len(t) : IsSpace(Char(t, i))}
    IN  IF t = "" THEN <<>>
        ELSE IF spaces = {} THEN <<t>>
        ELSE LET i == CHOOSE a \in spaces : \A b \in spaces : a <= b
             IN  <<SubSeq(t, 1, i - 1)>> \o Words(SubSeq(t, i + 1, Len(t)))

\* " ".join(words)
RECURSIVE Join(_)
Join(words) ==
    IF words = <<>> THEN ""
    ELSE IF Len(words) = 1 THEN words[1]
    ELSE words[1] \o " " \o Join(Tail(words))

\* text[:n]
Prefix(text, n) == SubSeq(text, 1, Min(n, Len(text)))

\* int(num) for a string of digits
RECURSIVE ParseInt(_)
ParseInt(num) ==
    IF num = "" THEN 0
    ELSE 10 * ParseInt(SubSeq(num, 1, Len(num) - 1))
         + ((CHOOSE d \in 1..10 : Char(Digits, d) = Char(num, Len(num))) - 1)

\* the leading run of digits of s
RECURSIVE DigitRun(_)
DigitRun(s) ==
    IF s # "" /\ IsDigit(Char(s, 1)) THEN Char(s, 1) \o DigitRun(Tail(s)) ELSE ""

HasNumbers(s) == \E i \in 1..Len(s) : IsDigit(Char(s, i))

\* re.findall(r'\d+', s)[0] when s has a digit
FirstNumber(s) ==
    LET at == {i \in 1..Len(s) : IsDigit(Char(s, i))}
        i  == CHOOSE a \in at : \A b \in at : a <= b
    IN  DigitRun(SubSeq(s, i, Len(s)))

\* template.format(**args): the text, or ok = FALSE for the KeyError of a
\* placeholder that args does not supply
RECURSIVE Format(_, _)
Format(template, args) ==
    LET open  == Find(template, "{")
        close == Find(template, "}")
        name  == SubSeq(template, open + 1, close - 1)
        rest  == Format(SubSeq(template, close + 1, Len(template)), args)
    IN  IF open = 0 THEN [ok |-> TRUE, text |-> template]
        ELSE IF name \in DOMAIN args
           THEN [ok   |-> rest.ok,
                 text |-> SubSeq(template, 1, open - 1) \o args[name] \o rest.text]
        ELSE [ok |-> FALSE, text |-> ""]

\* lines 67-101
templates ==
    [fact |->
       << "According to the Kentucky Driver's Manual, what is the {topic}?",
          "What does the Kentucky Driver's Manual state about {topic}?",
          "Which of the following correctly describes {topic}?",
          "What is the rule regarding {topic} in Kentucky?",
          "How does the Kentucky Driver's Manual define {topic}?" >>,
     scenario |->
       << "You are driving and {scenario}. What should you do?",
          "While driving in Kentucky, {scenario}. What is the correct action?",
          "If {scenario} occurs while driving, you should:",
          "When {scenario}, the proper response is to:",
          "You encounter {scenario} on the road. What is the safest action?" >>,
     rule |->
       << "What is the penalty for {violation} in Kentucky?",
          "According to Kentucky law, what happens if a driver {violation}?",
          "Which statement is correct about the consequences of {violation}?",
          "What does Kentucky law require regarding {requirement}?",
          "Under Kentucky regulations, when is it legal to {action}?" >>,
     calculation |->
       << "If {scenario}, calculate {calculation_target}.",
          "What is {calculation_target} when {scenario}?",
          "Calculate {calculation_target} in the following situation: {scenario}",
          "Based on the Kentucky Driver's Manual, what is {calculation_target} if {scenario}?" >>,
     sign |->
       << "What does this road sign indicate? [REQUIRES IMAGE]",
          "Which of the following best describes the meaning of this traffic sign? [REQUIRES IMAGE]",
          "When you see this sign, you should: [REQUIRES IMAGE]",
          "This road sign warns drivers about: [REQUIRES IMAGE]" >>]

\* lines 286-287
calculation_targets ==
    {"the stopping distance", "the reaction time", "the total braking distance",
     "the speed limit", "the blood alcohol content (BAC)"}

\* line 160
negations == <<"not", "never", "isn't", "doesn't", "won't">>

IsWordChar(c) == IsUpper(c) \/ IsLower(c) \/ IsDigit(c) \/ c = "_"

RECURSIVE WordRun(_)
WordRun(s) ==
    IF s # "" /\ IsWordChar(Char(s, 1)) THEN 1 + WordRun(Tail(s)) ELSE 0

\* re.sub(r'penalty|fine|punish\w*', '', s, flags=re.IGNORECASE): the
\* leftmost match is cut out, then the rest is searched
MatchLen(s, i) ==
    LET rest == SubSeq(s, i, Len(s))
    IN  IF Lower(Prefix(rest, 7)) = "penalty" THEN 7
        ELSE IF Lower(Prefix(rest, 4)) = "fine" THEN 4
        ELSE IF Lower(Prefix(rest, 6)) = "punish"
           THEN 6 + WordRun(SubSeq(rest, 7, Len(rest)))
        ELSE 0

RECURSIVE RemovePenaltyWords(_)
RemovePenaltyWords(s) ==
    LET at == {i \in 1..Len(s) : MatchLen(s, i) > 0}
        i  == CHOOSE a \in at : \A b \in at : a <= b
    IN  IF at = {} THEN s
        ELSE SubSeq(s, 1, i - 1)
             \o RemovePenaltyWords(SubSeq(s, i + MatchLen(s, i), Len(s)))

\* lines 228-233
ValidSentences(text) ==
    LET stripped == [i \in DOMAIN SplitSentences(text) |->
                        Strip(SplitSentences(text)[i])]
        IsValid(t) == Len(t) > 30 /\ Len(t) < 150
        valid == SelectSeq(stripped, IsValid)
    IN  IF valid # <<>> THEN valid
        ELSE IF text # "" THEN <<Prefix(text, 150)>>
        ELSE <<"Kentucky driving rules">>

\* lines 257-263
TopicOf(topic_sentence) ==
    LET words == Words(topic_sentence)
    IN  IF Len(words) > 8
           THEN Join(SubSeq(words, 1, Min(8, Len(words) \div 2)))
           ELSE topic_sentence

\* self.section_map.get(section_id, {}).get('title', '')
SectionTitle(secs, section_id) ==
    LET found == {i \in 1..Len(secs) : secs[i].id = section_id}
    IN  IF found = {} THEN "" ELSE secs[CHOOSE i \in found : TRUE].title

MentionsPenalty(topic_sentence) ==
    \/ Contains(Lower(topic_sentence), "penalty")
    \/ Contains(Lower(topic_sentence), "fine")

Stem(formatted, requires_image) ==
    [ok |-> formatted.ok, question_text |-> formatted.text,
     requires_image |-> requires_image]

\* lines 238-293: every question text the draws of random.random and
\* random.choice can give, with requires_image; ok = FALSE where format
\* raises KeyError
StemOutcomes(title, topic_sentence, topic) ==
    LET sign == IF Contains(Lower(title), "sign")
                   THEN {Stem([ok |-> TRUE, text |-> t], TRUE) :
                            t \in Range(templates.sign)}
                   ELSE {}
        calculation ==
            IF HasNumbers(topic_sentence)
               THEN {Stem(Format(t, ("scenario" :> topic_sentence)
                                    @@ ("calculation_target" :> target)), FALSE) :
                        t \in Range(templates.calculation),
                        target \in calculation_targets}
               ELSE {}
        rule == {Stem(Format(t, "violation" :>
                                  Strip(RemovePenaltyWords(topic_sentence))), FALSE) :
                    t \in Range(templates.rule)}
        scenario == {Stem(Format(t, "scenario" :> topic_sentence), image) :
                        t \in Range(templates.scenario), image \in BOOLEAN}
        fact == {Stem(Format(t, "topic" :> topic), FALSE) :
                    t \in Range(templates.fact)}
    IN  sign \cup calculation
             \cup (IF MentionsPenalty(topic_sentence) THEN rule
                                                      ELSE scenario \cup fact)

\* lines 128-137
extract_fact_from_chunk(chunk, topic) ==
    LET sentences == SplitSentences(chunk.text)
        IsRelevant(t) == Contains(Lower(t), Lower(topic))
        relevant_sentences == SelectSeq(sentences, IsRelevant)
    IN  IF relevant_sentences # <<>> THEN Strip(relevant_sentences[1])
        ELSE Prefix(chunk.text, 200)

MaxSim == 1

\* a ranking that puts chunks of equal similarity in the reverse of their
\* list order
find_most_similar_chunks_ties_reversed(cs, sim, n) ==
    LET before(i) == {j \in 1..Len(cs) :
                        \/ sim[j] > sim[i]
                        \/ sim[j] = sim[i] /\ j > i}
    IN  [k \in 1..Min(n, Len(cs)) |->
            cs[CHOOSE i \in 1..Len(cs) : Cardinality(before(i)) = k - 1]]

\* lines 112-126: the n chunks of highest similarity, sorted by list.sort
\* (stable) with reverse=True; sim[i] stands for the cosine similarity of
\* chunk i to the query, which the embedding model decides.  A chunk comes
\* after those of higher similarity and those of equal similarity that
\* precede it in the list.
find_most_similar_chunks(cs, sim, n) ==
    LET before(i) == {j \in 1..Len(cs) :
                        \/ sim[j] > sim[i]
                        \/ sim[j] = sim[i] /\ j < i}
    IN  [k \in 1..Min(n, Len(cs)) |->
            cs[CHOOSE i \in 1..Len(cs) : Cardinality(before(i)) = k - 1]]

\* lines 146-152
RECURSIVE Strategy1(_, _, _, _)
Strategy1(related_chunks, wrong, correct, topic) ==
    IF related_chunks = <<>> \/ Len(wrong) >= 3 THEN wrong
    ELSE LET fact == extract_fact_from_chunk(Head(related_chunks), topic)
         IN  Strategy1(Tail(related_chunks),
                       IF fact # "" /\ fact # correct /\ Len(fact) < 150
                          THEN Append(wrong, fact) ELSE wrong,
                       correct, topic)

\* lines 171-175
InsertNegation(words, neg) ==
    LET insert_pos == Min(Len(words) \div 3, 2)
    IN  Join(SubSeq(words, 1, insert_pos) \o <<neg>>
             \o SubSeq(words, insert_pos + 1, Len(words)))

\* lines 163-175: what the negation step appends, a sequence of at most
\* one answer, for every outcome of random.choice(negations)
NegationOutcomes(correct) ==
    UNION { LET present == {k \in 1..Len(negations) :
                               Contains(lower, negations[k])}
                first == CHOOSE k \in present : \A j \in present : k <= j
            IN  IF present # {}
                   THEN {<<Replace(correct, negations[first], "")>>}
                ELSE UNION { IF Len(words) > 3
                                THEN {<<InsertNegation(words, neg)>> :
                                         neg \in Range(negations)}
                                ELSE {<<>>} :
                             words \in {Words(correct)} } :
            lower \in {Lower(correct)} }

Deltas == {-2, -1, 1, 2, 5, 10}
Retries == {1, 2, 5, 10}

\* lines 182-184 for num = n
NewNumbers(n) ==
    {IF n + delta <= 0 THEN n + retry ELSE n + delta :
        delta \in Deltas, retry \in Retries}

\* lines 178-187: what the number step appends, a sequence of at most one
\* answer, for every outcome of its random.choice calls
NumberOutcomes(correct) ==
    IF HasNumbers(correct)
       THEN UNION { {<<Replace(correct, num, Str(new_num))>> :
                        new_num \in NewNumbers(ParseInt(num))} :
                    num \in {FirstNumber(correct)} }
       ELSE {<<>>}

\* lines 156-187: the list after one iteration of the while loop, for
\* every outcome of its random draws
Strategy2(wrong, correct) ==
    IF correct = "" THEN {Append(wrong, "Option not mentioned in the manual")}
    ELSE {wrong \o negated \o changed :
             negated \in NegationOutcomes(correct),
             changed \in NumberOutcomes(correct)}

\* lines 302-311
Choices(all_answers, perm, correct) ==
    [i \in 1..4 |->
        [label     |-> Char(Labels, i),
         text      |-> all_answers[perm[i]],
         isCorrect |-> all_answers[perm[i]] = correct]]

\* f"KDM-{question_id:05d}"
QuestionId(question_id) ==
    "KDM-" \o SubSeq("0000", 1, 5 - Len(Decimal(question_id)))
           \o Decimal(question_id)

\* lines 331-342 (tags and imagePrompt are not represented)
NewQuestion(chunk, question_id, difficulty, stem, correct, choices) ==
    [questionID    |-> QuestionId(question_id),
     sectionID     |-> chunk.section,
     difficulty    |-> difficulty,
     questionText  |-> stem.question_text,
     choices       |-> choices,
     explanation   |-> "According to the Kentucky Driver's Manual on page "
                           \o Str(chunk.pageNum) \o ", " \o correct,
     pageRef       |-> chunk.pageNum,
     requiresImage |-> stem.requires_image]

\* ---- the chunk lists the generator is built on ----

GenSections ==
    << [id |-> "Section1.RoadSigns", title |-> "Road Signs",
        level |-> 1, parent |-> NoId],
       [id |-> "Section2.Rules", title |-> "Rules of the Road",
        level |-> 1, parent |-> NoId] >>

GenTexts ==
    << [text |-> "Never pass.", section |-> "Section2.Rules", pageNum |-> 14],
       [text |-> "Stop.", section |-> "Section1.RoadSigns", pageNum |-> 7],
       [text |-> "Park away from a fire hydrant.",
        section |-> "Section2.Rules", pageNum |-> 36],
       [text |-> "Do not exceed 55; the fine is high.",
        section |-> "Section2.Rules", pageNum |-> 22],
       [text |-> "You must not pass a stopped school bus on any road.",
        section |-> "Section2.Rules", pageNum |-> 15] >>

GenChunkLists ==
    LET picks == UNION {[1..n -> 1..Len(GenTexts)] : n \in 1..MaxGenChunks}
        distinct(b) == \A i, j \in DOMAIN b : i # j => b[i] # b[j]
    IN  {[i \in DOMAIN b |->
             [id |-> "chunk-" \o Decimal(i), text |-> GenTexts[b[i]].text,
              section |-> GenTexts[b[i]].section,
              pageNum |-> GenTexts[b[i]].pageNum]] :
            b \in {c \in picks : distinct(c)}}

NoChunk == <<>>
NoStem == <<>>
NoQuestion == <<>>

GenIdle ==
    /\ gen_chunk = NoChunk
    /\ gen_stem = NoStem
    /\ gen_topic = ""
    /\ gen_correct = ""
    /\ gen_wrong = <<>>
    /\ gen_question = NoQuestion

\* QuestionGenerator(sections, chunks) has been constructed
GenInit ==
    /\ pc = "gen"
    /\ sections = GenSections
    /\ chunks \in GenChunkLists
    /\ questions = <<>>
    /\ difficulty_counts = NoTargets
    /\ chunks_used = {}
    /\ sec_i = 0
    /\ made = 0
    /\ coverage_report = <<>>
    /\ GenIdle

notGen == <<tocVars, quotaVars, bankVars, qcVars, extVars>>

\* create_question_from_chunk(chunk, 1, 'easy'), lines 221-296: up to the
\* correct answer; a KeyError of format ends the call
CreateQuestion ==
    /\ pc = "gen"
    /\ \E c \in 1..Len(chunks) :
         \E topic_sentence \in Range(ValidSentences(chunks[c].text)) :
           \E topic \in {TopicOf(topic_sentence)} :
             \E stem \in StemOutcomes(SectionTitle(sections, chunks[c].section),
                                      topic_sentence, topic) :
                IF stem.ok
                   THEN /\ gen_chunk' = chunks[c]
                        /\ gen_stem' = stem
                        /\ gen_topic' = topic
                        /\ gen_correct' = extract_fact_from_chunk(chunks[c], topic)
                        /\ pc' = "strategy1"
                   ELSE /\ pc' = "crashed"
                        /\ UNCHANGED <<gen_chunk, gen_stem, gen_topic, gen_correct>>
    /\ UNCHANGED <<gen_wrong, gen_question, notGen>>

\* generate_wrong_answers, lines 141-152
NeighbourFacts ==
    /\ pc = "strategy1"
    /\ \E sim \in [1..Len(chunks) -> 0..MaxSim] :
          gen_wrong' = Strategy1(find_most_similar_chunks(chunks, sim, 5),
                                 <<>>, gen_correct, gen_topic)
    /\ pc' = "strategy2"
    /\ UNCHANGED <<gen_chunk, gen_stem, gen_topic, gen_correct, gen_question,
                   notGen>>

\* generate_wrong_answers, lines 155-187: one iteration of the loop
ModifyCorrectAnswer ==
    /\ pc = "strategy2"
    /\ Len(gen_wrong) < 3
    /\ gen_wrong' \in Strategy2(gen_wrong, gen_correct)
    /\ UNCHANGED <<pc, gen_chunk, gen_stem, gen_topic, gen_correct,
                   gen_question, notGen>>

\* generate_wrong_answers line 190 and create_question_from_chunk lines
\* 302-344
ReturnQuestion ==
    /\ pc = "strategy2"
    /\ Len(gen_wrong) >= 3
    /\ \E all_answers \in {<<gen_correct>> \o SubSeq(gen_wrong, 1, 3)},
          unshuffled \in {NewQuestion(gen_chunk, 1, "easy", gen_stem,
                                      gen_correct, <<>>)} :
          \E perm \in Perms4 :
             gen_question' =
                 [unshuffled EXCEPT
                     !.choices = Choices(all_answers, perm, gen_correct)]
    /\ pc' = "gen_done"
    /\ UNCHANGED <<gen_chunk, gen_stem, gen_topic, gen_correct, gen_wrong,
                   notGen>>

GenNext ==
    \/ CreateQuestion
    \/ NeighbourFacts
    \/ ModifyCorrectAnswer
    \/ ReturnQuestion

\* ------------------------------------------------------------------------
\* pdf_processor.py : chunk_text_by_sections
\* ------------------------------------------------------------------------

MaxParas == 4

\* the character budget of line 262
ChunkBudget == 1000

ParagraphSeparator == "\n\n"

\* c * n
RECURSIVE Repeat(_, _)
Repeat(c, n) ==
    IF n = 0 THEN ""
    ELSE IF n = 1 THEN c
    ELSE Repeat(c, n \div 2) \o Repeat(c, n - n \div 2)

\* where sub starts in s
Positions(s, sub) ==
    {i \in 1..(Len(s) - Len(sub) + 1) : SubSeq(s, i, i + Len(sub) - 1) = sub}

Least(S) == CHOOSE i \in S : \A j \in S : i <= j

\* s.split(sep) : cut at every occurrence of sep, found left to right.
\* The text, and the places of sep in it, are computed once.
RECURSIVE Split(_, _)
Split(s, sep) ==
    CHOOSE parts \in
        UNION {UNION {IF ps = {} THEN {<<text>>}
                      ELSE {<<SubSeq(text, 1, i - 1)>>
                               \o Split(SubSeq(text, i + Len(sep), Len(text)), sep) :
                            i \in {Least(ps)}} :
                      ps \in {Positions(text, sep)}} :
               text \in {s}} : TRUE

\* sep.join(parts)
RECURSIVE JoinWith(_, _)
JoinWith(parts, sep) ==
    IF parts = <<>> THEN ""
    ELSE IF Len(parts) = 1 THEN parts[1]
    ELSE parts[1] \o sep \o JoinWith(Tail(parts), sep)

\* lines 248-254 : the text of the pages start_page .. min(end_page, page_count)
RECURSIVE PagesFrom(_, _, _)
PagesFrom(pages, page_num, last) ==
    IF page_num > last THEN ""
    ELSE (IF page_num \in DOMAIN pages THEN pages[page_num] ELSE "")
         \o PagesFrom(pages, page_num + 1, last)

SectionText(section, pages, pageCount) ==
    PagesFrom(pages, section.pageRange[1],
              Min(section.pageRange[2] + 1, pageCount + 1) - 1)

\* an accumulation that forgets to save the chunk in hand on overflow
AddParagraphUnsaved(para, current_chunk, done) ==
    IF Len(current_chunk) + Len(para) < ChunkBudget
       THEN [current_chunk |-> IF current_chunk # ""
                                  THEN current_chunk \o ParagraphSeparator \o para
                                  ELSE para,
             done |-> done]
       ELSE [current_chunk |-> para, done |-> done]

\* lines 262-276 : one non-blank paragraph met with current_chunk in hand
\* and the chunks in done already saved
AddParagraph(para, current_chunk, done) ==
    IF Len(current_chunk) + Len(para) < ChunkBudget
       THEN [current_chunk |-> IF current_chunk # ""
                                  THEN current_chunk \o ParagraphSeparator \o para
                                  ELSE para,
             done |-> done]
       ELSE [current_chunk |-> para,
             done |-> IF current_chunk # "" THEN Append(done, current_chunk)
                      ELSE done]

\* lines 258-286 : the greedy accumulation over the paragraphs from k on
RECURSIVE Accumulate(_, _, _)
Accumulate(paragraphs, k, st) ==
    IF k > Len(paragraphs)
       THEN (IF st.current_chunk # "" THEN Append(st.done, st.current_chunk)
             ELSE st.done)
    ELSE IF Strip(paragraphs[k]) = ""
       THEN Accumulate(paragraphs, k + 1, st)
    ELSE CHOOSE chunked \in
            {Accumulate(paragraphs, k + 1, next) :
                next \in {AddParagraph(paragraphs[k], st.current_chunk, st.done)}} :
            TRUE

\* the chunks of one section, numbered from first_id on
SectionTextChunks(section, pages, pageCount, first_id) ==
    CHOOSE made_chunks \in
        {[k \in 1..Len(texts) |->
            [id      |-> "chunk-" \o Decimal(first_id + k - 1),
             text    |-> texts[k],
             section |-> section.id,
             pageNum |-> section.pageRange[1]]] :
         texts \in {Accumulate(paragraphs, 1, [current_chunk |-> "", done |-> <<>>]) :
                      paragraphs \in {Split(SectionText(section, pages, pageCount),
                                            ParagraphSeparator)}}} : TRUE

\* section_map.items() : one entry for every id, in the order in which the
\* ids were first stored, holding the section stored last under the id
RECURSIVE MapItems(_, _, _)
MapItems(secs, map, i) ==
    IF i > Len(secs) THEN <<>>
    ELSE (IF \E j \in 1..(i - 1) : secs[j].id = secs[i].id THEN <<>>
          ELSE <<secs[map[secs[i].id]]>>)
         \o MapItems(secs, map, i + 1)

SectionMap(items, pageCount) ==
    LET st == FirstPass(FirstPassInit, 1, items, pageCount)
    IN  MapItems(SecondPass(st.sections, st.map, 1), st.map, 1)

\* the paragraphs a manual is made of: two that together stay one character
\* under the budget, and a blank one
ParaPool == {Repeat("a", 500), Repeat("b", 499), " "}

\* a manual of two pages: some paragraphs, and the place of the page break
ManualTexts ==
    UNION {{(1 :> JoinWith(SubSeq(ps, 1, j), ParagraphSeparator)) @@
            (2 :> JoinWith(SubSeq(ps, j + 1, Len(ps)), ParagraphSeparator)) :
              j \in 0..Len(ps)} :
           ps \in UNION {[1..k -> ParaPool] : k \in 0..MaxParas}}

\* a single section; two chapters; a chapter and its subsection
ChunkTocs ==
    {<<[level |-> 1, title |-> "a", page |-> 1]>>,
     <<[level |-> 1, title |-> "a", page |-> 1],
       [level |-> 1, title |-> "b", page |-> 2]>>,
     <<[level |-> 1, title |-> "a", page |-> 1],
       [level |-> 2, title |-> "b", page |-> 1]>>}

ChunkIdle ==
    /\ pages_text = <<>>
    /\ section_map = <<>>
    /\ text_chunks = <<>>
    /\ chunk_pos = 0

\* after extract_table_of_contents and extract_all_text
ChunkInit ==
    /\ pc = "chunking"
    /\ page_count = 2
    /\ toc \in ChunkTocs
    /\ structured_sections = StructureToc(toc, page_count)
    /\ section_map = SectionMap(toc, page_count)
    /\ pages_text \in ManualTexts
    /\ text_chunks = <<>>
    /\ chunk_pos = 1

notChunk == <<tocVars, quotaVars, bankVars, qcVars, genVars, simVars, enhVars, moreVars>>

\* one iteration of the loop over the sections (lines 246-286)
ChunkSection ==
    /\ pc = "chunking"
    /\ chunk_pos <= Len(section_map)
    /\ text_chunks' = text_chunks \o
                      SectionTextChunks(section_map[chunk_pos], pages_text,
                                        page_count, Len(text_chunks) + 1)
    /\ chunk_pos' = chunk_pos + 1
    /\ UNCHANGED <<pc, pages_text, section_map, notChunk>>

\* line 288
ChunkReturn ==
    /\ pc = "chunking"
    /\ chunk_pos > Len(section_map)
    /\ pc' = "chunked"
    /\ UNCHANGED <<chunkVars, notChunk>>

ChunkNext == ChunkSection \/ ChunkReturn

\* ------------------------------------------------------------------------
\* question_generator.py : a call of find_most_similar_chunks
\* ------------------------------------------------------------------------

MaxSimChunks == 4
MaxSimilarity == 2
MaxTopN == 5

\* the first k chunks of the manual
SimChunks(k) ==
    [i \in 1..k |->
        [id |-> "chunk-" \o Decimal(i), text |-> GenTexts[i].text,
         section |-> GenTexts[i].section, pageNum |-> GenTexts[i].pageNum]]

SimIdle ==
    /\ similarities = <<>>
    /\ top_n = 0
    /\ found_chunks = <<>>

\* the chunks are embedded; the similarity of each to the query is whatever
\* the embedding model makes it
SimInit ==
    /\ pc = "find"
    /\ sections = GenSections
    /\ chunks \in {SimChunks(k) : k \in 0..MaxSimChunks}
    /\ questions = <<>>
    /\ difficulty_counts = NoTargets
    /\ chunks_used = {}
    /\ sec_i = 0
    /\ made = 0
    /\ coverage_report = <<>>
    /\ similarities \in [1..Len(chunks) -> 0..MaxSimilarity]
    /\ top_n \in 0..MaxTopN
    /\ found_chunks = <<>>

\* find_most_similar_chunks(query, n), lines 112-126
FindMostSimilar ==
    /\ pc = "find"
    /\ found_chunks' = find_most_similar_chunks(chunks, similarities, top_n)
    /\ pc' = "found"
    /\ UNCHANGED <<similarities, top_n, tocVars, quotaVars, bankVars, qcVars,
                   genVars, chunkVars, enhVars, moreVars>>

\* ------------------------------------------------------------------------
\* enhanced_fix_questions.py : main, fix_questions and their helpers
\* ------------------------------------------------------------------------

\* lines 23-31
BANNED_PHRASES ==
    << "Follow Kentucky guidelines for",
       "There are no specific rules for",
       "Wait for other drivers to decide about",
       "Ignore the",
       "Use personal judgment rather than following official guidelines",
       "The procedure varies by county and is not standardized across Kentucky",
       "There is no official procedure outlined in the Kentucky Driver's Manual" >>

\* lines 39-55
NeedsFix(question) ==
    \E texts \in {{Lower(question.questionText)}
                     \cup {Lower(question.choices[c].text) :
                              c \in 1..Len(question.choices)}} :
        \E k \in 1..Len(BANNED_PHRASES) :
            \E phrase \in {Lower(BANNED_PHRASES[k])} :
                \E text \in texts : Contains(text, phrase)

MeetsStandards(question) == ~NeedsFix(question)

\* lines 95-117
QUESTION_TEMPLATES ==
    [fact |->
        <<"According to the Kentucky Driver's Manual, what is the correct procedure for {topic}?",
          "What does Kentucky law state about {topic}?",
          "Which of the following correctly describes {topic} in Kentucky?",
          "What is the rule regarding {topic} in Kentucky?",
          "How does the Kentucky Driver's Manual recommend handling {topic}?" >>,
     scenario |->
        <<"You're driving in Kentucky and encounter {topic}. What should you do?",
          "While driving in Kentucky, you face a situation involving {topic}. What is the correct action?",
          "If you encounter {topic} while driving, what should you do?",
          "When dealing with {topic} on the road, what is the proper response?",
          "You encounter {topic} while driving. What is the safest action?" >>,
     rule |->
        <<"What is the penalty for {topic} in Kentucky?",
          "According to Kentucky law, what happens if a driver violates rules regarding {topic}?",
          "Which statement is correct about the consequences of improper {topic}?",
          "What does Kentucky law require regarding {topic}?",
          "Under Kentucky regulations, what is the proper approach to {topic}?" >>]

\* lines 120-264, in dict order
TOPIC_ANSWERS ==
    << [key |-> "right-of-way",
        correct |-> "The vehicle on the right has the right-of-way at uncontrolled intersections",
        wrong |-> <<"The vehicle on the left has the right-of-way at all intersections",
                    "The larger vehicle always has the right-of-way",
                    "The vehicle traveling faster has the right-of-way">>],
       [key |-> "four-way stop",
        correct |-> "Vehicles proceed in the order they arrived at the intersection",
        wrong |-> <<"The vehicle on the right always goes first",
                    "Commercial vehicles have priority over passenger vehicles",
                    "The vehicle traveling on the wider road has the right-of-way">>],
       [key |-> "speed limit",
        correct |-> "Obey posted speed limits and reduce speed in adverse conditions",
        wrong |-> <<"Drive at a speed that matches the flow of traffic, regardless of posted limits",
                    "Posted limits are just suggestions and not legally enforceable",
                    "You may exceed the speed limit by 10 mph before being ticketed">>],
       [key |-> "school zone",
        correct |-> "Reduce speed to 25 mph when children are present",
        wrong |-> <<"Maintain normal speed if no crossing guards are present",
                    "School zone limits only apply during regular school hours",
                    "School zone limits don't apply on weekends or holidays regardless of events">>],
       [key |-> "parallel parking",
        correct |-> "Signal, position your vehicle parallel to the car in front, then back into the space while turning the wheel",
        wrong |-> <<"Pull in front-first, then adjust your position as needed",
                    "Enter the space at a 45-degree angle, then straighten out",
                    "It's acceptable to tap other vehicles slightly when parallel parking">>],
       [key |-> "handicap parking",
        correct |-> "Only vehicles displaying a valid handicap placard or license plate may park in designated spaces",
        wrong |-> <<"Anyone can park in handicap spaces for brief periods under 5 minutes",
                    "Handicap spaces are available to all drivers during non-business hours",
                    "Family members of disabled persons can use these spaces even without the disabled person present">>],
       [key |-> "red light",
        correct |-> "Come to a complete stop before the limit line and remain stopped until the light turns green",
        wrong |-> <<"Stop briefly, then proceed if no cross traffic is visible",
                    "A red light is a suggestion to stop but not mandatory if the intersection is clear",
                    "You can proceed through a red light after stopping if it's after 10 PM">>],
       [key |-> "yellow light",
        correct |-> "Slow down and stop if you can do so safely",
        wrong |-> <<"Always speed up to get through the intersection before the light turns red",
                    "Always slam on your brakes to stop, regardless of safety",
                    "Yellow lights can be treated the same as green lights">>],
       [key |-> "license renewal",
        correct |-> "Present your current license, pass a vision test, and pay the renewal fee",
        wrong |-> <<"Licenses automatically renew and are mailed to your home address",
                    "Complete renewal online without any in-person verification",
                    "Take a full driving test for each renewal">>],
       [key |-> "suspended license",
        correct |-> "Stop driving immediately, complete all requirements, and pay reinstatement fees before driving again",
        wrong |-> <<"You may continue driving for essential trips like work and school",
                    "A suspension can be ignored if it's your first offense",
                    "You can drive if you keep a copy of your suspension notice with you">>],
       [key |-> "seat belt",
        correct |-> "All front-seat occupants and all passengers under 18 must wear seat belts",
        wrong |-> <<"Only the driver is legally required to wear a seat belt",
                    "Seat belts are optional on trips under 10 miles",
                    "Passengers in the back seat are exempt from seat belt laws">>],
       [key |-> "child restraint",
        correct |-> "Children under 40 inches tall must be in a child safety seat; children under 8 years and between 40-57 inches must use a booster seat",
        wrong |-> <<"Children over 4 years old can use regular seat belts regardless of height",
                    "Holding a child on your lap with a seat belt around both of you is legal",
                    "Child seats are only required on highways, not city streets">>],
       [key |-> "dui",
        correct |-> "For first offense: fines of $200-$500, license suspension of 30-120 days, potential jail time of 2-30 days",
        wrong |-> <<"First offense results only in a warning with no license suspension",
                    "DUI is only punishable if an accident occurs",
                    "Penalties are waived if you can demonstrate you've enrolled in alcohol treatment">>],
       [key |-> "blood alcohol",
        correct |-> "Legal limit is 0.08% for drivers 21 and older, 0.02% for drivers under 21",
        wrong |-> <<"Legal limit is 0.10% for all drivers regardless of age",
                    "Legal limit is 0.05% for all Kentucky drivers",
                    "There is no specific blood alcohol limit in Kentucky">>],
       [key |-> "fog",
        correct |-> "Slow down, use low beam headlights, and use the right edge line as a guide",
        wrong |-> <<"Use high beams to better illuminate the road ahead",
                    "Drive at normal speed but turn on hazard lights",
                    "Pull over and wait until the fog completely clears before proceeding">>],
       [key |-> "ice",
        correct |-> "Reduce speed, increase following distance, and avoid sudden movements with steering, braking, or acceleration",
        wrong |-> <<"Apply brakes firmly when skidding to regain control quickly",
                    "Drive at normal speed to avoid getting stuck in the ice",
                    "Pumping your brakes rapidly is the best technique on all icy roads">>] >>

\* lines 267-308, in dict order
CATEGORY_ANSWERS ==
    << [key |-> "Licensing",
        correct |-> "Follow specific procedures in the Kentucky Driver's Manual including proper documentation, testing, and fee payment",
        wrong |-> <<"Requirements vary significantly by county with no statewide standards",
                    "There are exemptions for most drivers that aren't widely publicized",
                    "Most licensing procedures are optional recommendations, not requirements">>],
       [key |-> "RulesOfTheRoad",
        correct |-> "Follow specific traffic laws as outlined in the Kentucky Driver's Manual and state statutes",
        wrong |-> <<"Rules are generally left to driver discretion in most situations",
                    "Rules apply primarily to commercial vehicles, not passenger cars",
                    "Posted signs are guidelines that can be disregarded when safe">>],
       [key |-> "Signs",
        correct |-> "Obey all traffic signs and signals as they are legally enforceable directives",
        wrong |-> <<"Most signs are advisory and compliance is optional outside of rush hour",
                    "Signs that are faded or partially obscured are not legally binding",
                    "Drivers can use personal judgment to determine which signs apply to them">>],
       [key |-> "Safety",
        correct |-> "Follow safety procedures outlined in the Kentucky Driver's Manual to prevent accidents and injuries",
        wrong |-> <<"Modern vehicles have enough safety features that manual safety procedures are unnecessary",
                    "Safety recommendations are mainly for new drivers and can be disregarded by experienced drivers",
                    "Safety procedures are only necessary in hazardous conditions or bad weather">>],
       [key |-> "Emergencies",
        correct |-> "Follow emergency protocols as specified in the Kentucky Driver's Manual to ensure safety of all parties",
        wrong |-> <<"Emergency procedures are just suggestions with no legal requirement to follow them",
                    "Each driver should develop their own emergency procedures based on personal preference",
                    "Emergency procedures only apply if police are present at the scene">>] >>

\* a match of "<prefix>([^?]+)<tail>\?" that starts at i: group 1 as a
\* one-element sequence, or <<>>.  The group holds no "?", so the "?" that
\* ends the match is the first one after the prefix.
GroupAt(text, prefix, tail, i) ==
    LET rest    == SubSeq(text, i + Len(prefix), Len(text))
        q       == Find(rest, "?")
        segment == SubSeq(rest, 1, q - 1)
    IN  IF /\ SubSeq(text, i, i + Len(prefix) - 1) = prefix
           /\ q > 0
           /\ Len(segment) > Len(tail)
           /\ SubSeq(segment, Len(segment) - Len(tail) + 1, Len(segment)) = tail
           THEN <<SubSeq(segment, 1, Len(segment) - Len(tail))>>
           ELSE <<>>

\* re.search(r"<prefix>([^?]+)<tail>\?", text): group 1 of the leftmost match
SearchGroup(text, prefix, tail) ==
    LET starts == {i \in Positions(text, prefix) :
                      GroupAt(text, prefix, tail, i) # <<>>}
    IN  IF starts = {} THEN <<>>
        ELSE GroupAt(text, prefix, tail, Least(starts))

Greatest(S) == CHOOSE i \in S : \A j \in S : i >= j

\* re.search(r"what should you do\?.*involving ([^.]+)\.", text): ".*" is
\* greedy and stays on one line, so the last "involving " that a group and a
\* "." can follow is taken
InvolvingAt(text, s) ==
    LET head   == "what should you do?"
        key    == "involving "
        from   == s + Len(head)
        group(j) == LET rest == SubSeq(text, j + Len(key), Len(text))
                    IN  SubSeq(rest, 1, Find(rest, ".") - 1)
        js     == {j \in Positions(text, key) :
                      /\ j >= from
                      /\ ~Contains(SubSeq(text, from, j - 1), "\n")
                      /\ Find(SubSeq(text, j + Len(key), Len(text)), ".") >= 2}
    IN  IF js = {} THEN <<>> ELSE <<group(Greatest(js))>>

SearchInvolving(text) ==
    LET starts == {s \in Positions(text, "what should you do?") :
                      InvolvingAt(text, s) # <<>>}
    IN  IF starts = {} THEN <<>> ELSE InvolvingAt(text, Least(starts))

\* lines 367-375
patterns ==
    << [kind |-> "upto", prefix |-> "what is the correct procedure for ", tail |-> ""],
       [kind |-> "upto", prefix |-> "what does kentucky law state about ", tail |-> ""],
       [kind |-> "upto", prefix |-> "what is the rule regarding ", tail |-> " in kentucky"],
       [kind |-> "upto",
        prefix |-> "how does the kentucky driver's manual recommend handling ",
        tail |-> ""],
       [kind |-> "involving", prefix |-> "", tail |-> ""],
       [kind |-> "upto", prefix |-> "what happens if a driver ", tail |-> ""],
       [kind |-> "upto", prefix |-> "what is the penalty for ", tail |-> " in kentucky"] >>

PatternGroup(text, pattern) ==
    IF pattern.kind = "involving" THEN SearchInvolving(text)
    ELSE SearchGroup(text, pattern.prefix, pattern.tail)

\* lines 378-381 : group 1 of the first pattern that matches, or <<>>
RECURSIVE FirstPatternGroup(_, _)
FirstPatternGroup(text, k) ==
    IF k > Len(patterns) THEN <<>>
    ELSE IF PatternGroup(text, patterns[k]) # <<>> THEN PatternGroup(text, patterns[k])
    ELSE FirstPatternGroup(text, k + 1)

\* lines 384-388 : the first choice that yields a non-empty topic
RECURSIVE GuidelineTopic(_)
GuidelineTopic(choices) ==
    IF choices = <<>> THEN <<>>
    ELSE IF /\ Contains(Head(choices).text, "Follow Kentucky guidelines for")
            /\ Strip(Replace(Head(choices).text, "Follow Kentucky guidelines for", "")) # ""
       THEN <<Strip(Replace(Head(choices).text, "Follow Kentucky guidelines for", ""))>>
    ELSE GuidelineTopic(Tail(choices))

\* re.sub(r'(?<!^)(?=[A-Z])', ' ', s) : a space before every capital letter
\* that is not the first character
RECURSIVE CamelSpaces(_)
CamelSpaces(s) ==
    IF Len(s) <= 1 THEN s
    ELSE CamelSpaces(SubSeq(s, 1, Len(s) - 1))
         \o (IF IsUpper(Char(s, Len(s))) THEN " " ELSE "")
         \o Char(s, Len(s))

\* lines 362-400
enhanced_extract_topic(question) ==
    LET topic(match) ==
            IF match # <<>> THEN Strip(match[1])
            ELSE IF GuidelineTopic(question.choices) # <<>>
               THEN GuidelineTopic(question.choices)[1]
            ELSE IF Contains(question.sectionID, ".")
               THEN Lower(CamelSpaces(Lower(LastPart(question.sectionID))))
            ELSE "driving procedures"
    IN  CHOOSE t \in {topic(match) :
                         match \in {FirstPatternGroup(question_text, 1) :
                                       question_text \in {Lower(question.questionText)}}} :
            TRUE

\* lines 403-420
determine_question_type(question) ==
    LET type(question_text) ==
          LET any(phrases) == \E phrase \in phrases : Contains(question_text, phrase)
          IN
        IF any({"what should you do", "what is the correct action",
                "what is the proper response", "what is the safest action",
                "while driving", "you encounter", "you're driving"})
           THEN "scenario"
        ELSE IF any({"penalty", "what happens if", "consequences", "require",
                     "when is it legal"})
           THEN "rule"
        ELSE "fact"
    IN  CHOOSE t \in {type(question_text) :
                         question_text \in {Lower(question.questionText)}} : TRUE

\* lines 423-427 : section_id.split(".")[0]
get_section_category(section_id) ==
    IF Contains(section_id, ".")
       THEN SubSeq(section_id, 1, Find(section_id, ".") - 1)
       ELSE section_id

\* an entry of a table by its key, as a set of indices
KeyIndex(tab, key) == {k \in 1..Len(tab) : tab[k].key = key}

\* a lookup that goes to the category answers unless the key is exact
get_appropriate_answers_exact_only(topic, section_category) ==
    IF KeyIndex(TOPIC_ANSWERS, topic) # {}
       THEN TOPIC_ANSWERS[CHOOSE k \in KeyIndex(TOPIC_ANSWERS, topic) : TRUE]
    ELSE IF KeyIndex(CATEGORY_ANSWERS, section_category) # {}
       THEN CATEGORY_ANSWERS[CHOOSE k \in KeyIndex(CATEGORY_ANSWERS, section_category) : TRUE]
    ELSE CATEGORY_ANSWERS[1]

\* lines 430-446
get_appropriate_answers(topic, section_category) ==
    LET partial == {k \in 1..Len(TOPIC_ANSWERS) :
                       \/ Contains(topic, TOPIC_ANSWERS[k].key)
                       \/ Contains(TOPIC_ANSWERS[k].key, topic)}
    IN  IF KeyIndex(TOPIC_ANSWERS, topic) # {}
           THEN TOPIC_ANSWERS[CHOOSE k \in KeyIndex(TOPIC_ANSWERS, topic) : TRUE]
        ELSE IF partial # {}
           THEN TOPIC_ANSWERS[Least(partial)]
        ELSE IF KeyIndex(CATEGORY_ANSWERS, section_category) # {}
           THEN CATEGORY_ANSWERS[CHOOSE k \in KeyIndex(CATEGORY_ANSWERS, section_category) : TRUE]
        ELSE CATEGORY_ANSWERS[1]

UpperChar(c) ==
    IF IsLower(c)
       THEN Char(UpperAlpha, CHOOSE i \in 1..26 : Char(LowerAlpha, i) = c)
       ELSE c

\* the length of the longest run of [\w\s] characters s starts with
RECURSIVE WordSpaceRun(_)
WordSpaceRun(s) ==
    IF s # "" /\ (IsWordChar(Char(s, 1)) \/ IsSpace(Char(s, 1)))
       THEN 1 + WordSpaceRun(Tail(s)) ELSE 0

\* re.sub(r"(?i)<phrase>([\w\s]+)\?", r"<canonical>\1?", text): the phrase is
\* matched in any letter case and rewritten as canonical; the matches are
\* taken left to right and do not overlap
RECURSIVE RewritePhrase(_, _, _)
RewritePhrase(text, phrase, canonical) ==
    LET n       == Len(phrase)
        run(i)  == WordSpaceRun(SubSeq(text, i + n, Len(text)))
        starts  == {i \in 1..(Len(text) - n) :
                       /\ LowerChar(Char(text, i)) = Char(phrase, 1)
                       /\ Lower(SubSeq(text, i, i + n - 1)) = phrase
                       /\ run(i) >= 1
                       /\ Char(text, i + n + run(i)) = "?"}
    IN  IF starts = {} THEN text
        ELSE LET i == Least(starts)
             IN  SubSeq(text, 1, i - 1) \o canonical
                 \o SubSeq(text, i + n, i + n + run(i))
                 \o RewritePhrase(SubSeq(text, i + n + run(i) + 1, Len(text)),
                                  phrase, canonical)

\* re.sub(r"\ba ([aeiou])", r"an \1", text) from position from on
RECURSIVE AnBeforeVowel(_, _)
AnBeforeVowel(text, from) ==
    LET starts == {i \in from..(Len(text) - 2) :
                      /\ Char(text, i) = "a"
                      /\ (i = 1 \/ ~IsWordChar(Char(text, i - 1)))
                      /\ Char(text, i + 1) = " "
                      /\ Char(text, i + 2) \in {"a", "e", "i", "o", "u"}}
    IN  IF starts = {} THEN SubSeq(text, from, Len(text))
        ELSE LET i == Least(starts)
             IN  SubSeq(text, from, i - 1) \o "an " \o Char(text, i + 2)
                 \o AnBeforeVowel(text, i + 3)

\* lines 449-467
fix_grammar(text) ==
    LET capitalized(stripped) ==
            IF ~IsUpper(Char(stripped, 1))
               THEN UpperChar(Char(stripped, 1)) \o SubSeq(stripped, 2, Len(stripped))
               ELSE stripped
        marked(t) == IF Char(t, Len(t)) # "?" THEN t \o "?" ELSE t
        legal(t)   == RewritePhrase(t, "when is it legal to ", "When is it legal to ")
        happens(t) == RewritePhrase(t, "what happens if a driver ",
                                    "What happens if a driver ")
    IN  CHOOSE r \in
            {AnBeforeVowel(t5, 1) :
                t5 \in {happens(t4) :
                    t4 \in {legal(t3) :
                        t3 \in {marked(t2) :
                            t2 \in {capitalized(t1) : t1 \in {Strip(text)}}}}}} : TRUE

\* lines 315-353 : what one iteration of the loop computes before its
\* random draws
FixContent(question) ==
    LET topic   == enhanced_extract_topic(question)
        answers == get_appropriate_answers(topic,
                                           get_section_category(question.sectionID))
    IN  [topic          |-> topic,
         question_type  |-> determine_question_type(question),
         correct_answer |-> answers.correct,
         all_answers    |-> <<answers.correct>> \o answers.wrong,
         explanation    |-> Explanation(question, answers.correct)]

\* lines 327-353 : the fixed question for the text built from the template
\* drawn and for one shuffle
FixedQuestion(question, new, new_text, perm) ==
    [question EXCEPT
        !.questionText = new_text,
        !.choices = MakeChoices(new.all_answers, perm, new.correct_answer),
        !.explanation = new.explanation]

FixOutcomes(question) ==
    UNION { {FixedQuestion(question, new, new_text, perm) :
                new_text \in {fix_grammar(Replace(template, "{topic}", new.topic)) :
                                template \in Range(QUESTION_TEMPLATES[new.question_type])},
                perm \in Perms4} :
            new \in {FixContent(question)} }

\* everything fix_questions may return
RECURSIVE FixLists(_)
FixLists(questions_to_fix) ==
    IF questions_to_fix = <<>> THEN {<<>>}
    ELSE {<<f>> \o rest : f \in FixOutcomes(Head(questions_to_fix)),
                          rest \in FixLists(Tail(questions_to_fix))}

EnhIdle ==
    /\ all_fixed_questions = <<>>
    /\ num_newly_fixed = 0

notEnh == <<tocVars, quotaVars, bankVars, qcVars, genVars, chunkVars, simVars, moreVars>>

\* enhanced_fix_questions.main, lines 17-74
EnhancedMain ==
    /\ pc = "enh_loaded"
    /\ \E fixed_questions \in {SelectSeq(questions, MeetsStandards)},
          questions_with_banned_phrases \in {SelectSeq(questions, NeedsFix)} :
          \E newly_fixed_questions \in FixLists(questions_with_banned_phrases) :
             /\ all_fixed_questions' = fixed_questions \o newly_fixed_questions
             /\ num_newly_fixed' = Len(newly_fixed_questions)
    /\ pc' = "enh_done"
    /\ UNCHANGED notEnh

\* ---- the banks either repair script is run on ----

MaxFixLen == 2

\* questions both scripts leave alone
FixPassing == <<PassingPool[1], PassingPool[6]>>

\* questions a script repairs; between them the topics meet a key of either
\* table exactly, meet one as a substring, and meet none
FixFailing ==
    FailingPool \o
    << Q("KDM-00011", "Section3.Parking", "medium",
         "What is the correct procedure for parallel parking?",
         <<"Follow Kentucky guidelines for parallel parking",
           "Signal, pull up beside the car ahead, then back in slowly",
           "Pull into the space front-first", "Stop in the travel lane">>, 2, 38),
       Q("KDM-00012", "Signs.WarningSigns", "easy",
         "Ignore the warning signs",
         <<"Slow down", "Speed up", "Stop", "Turn around">>, 1, 22),
       Q("KDM-00013", "Section6", "medium",
         "What does a flashing red light mean?",
         <<"There are no specific rules for flashing lights",
           "Stop, then go when safe", "Slow down", "Speed up">>, 2, 30) >>

\* the banks of at most MaxFixLen questions with at most one to repair
FixBanks ==
    {b \in Banks(FixPassing \o FixFailing, MaxFixLen) :
        \A i, j \in DOMAIN b :
            (b[i] \in Range(FixFailing) /\ b[j] \in Range(FixFailing)) => i = j}

\* a bank has been loaded by question_qc.main (line 24) or by
\* enhanced_fix_questions.main (line 17)
FixInit ==
    /\ pc \in {"qc_loaded", "enh_loaded"}
    /\ questions \in FixBanks
    /\ sections = <<>>
    /\ chunks = <<>>
    /\ difficulty_counts = NoTargets
    /\ chunks_used = {}
    /\ sec_i = 0
    /\ made = 0
    /\ coverage_report = <<>>
    /\ QCIdle
    /\ EnhIdle

FixNext == QCMain \/ EnhancedMain

\* ---- one question to repair for every entry of the fact tables ----

MaxEntryPage == 1

\* a question whose topic, taken from its first choice by either script,
\* is the given one
EntryQuestion(topic, section, page) ==
    Q("KDM-00020", section, "easy", "Which answer is right?",
      <<"Follow Kentucky guidelines for " \o topic, "Slow down", "Speed up", "Stop">>,
      2, page)

\* every key of concrete_facts and of TOPIC_ANSWERS, and a topic that meets
\* no key of either table
EntryTopics ==
    {concrete_facts[k].key : k \in 1..Len(concrete_facts)}
        \cup {TOPIC_ANSWERS[k].key : k \in 1..Len(TOPIC_ANSWERS)}
        \cup {"towing"}

\* a section of every key of CATEGORY_ANSWERS, and sections of no category
EntrySections ==
    {CATEGORY_ANSWERS[k].key \o ".Towing" : k \in 1..Len(CATEGORY_ANSWERS)}
        \cup {"Section3.Parking", "Section6"}

EntryQuestions ==
    {EntryQuestion(topic, "Section3.Parking", page) :
        topic \in EntryTopics, page \in 1..MaxEntryPage}
    \cup {EntryQuestion("towing", section, page) :
             section \in EntrySections, page \in 1..MaxEntryPage}

\* a bank of one such question has been loaded by either script
EntryInit ==
    /\ pc \in {"qc_loaded", "enh_loaded"}
    /\ questions \in {<<question>> : question \in EntryQuestions}
    /\ sections = <<>>
    /\ chunks = <<>>
    /\ difficulty_counts = NoTargets
    /\ chunks_used = {}
    /\ sec_i = 0
    /\ made = 0
    /\ coverage_report = <<>>
    /\ QCIdle
    /\ EnhIdle

\* ------------------------------------------------------------------------
\* generate_and_fix.py : the three scripts run one after the other
\* ------------------------------------------------------------------------

MaxReturnCode == 2

\* lines 10, 14, 19 : the scripts, in the order of the calls
Stages == <<"simple_generator.py", "enhanced_fix_questions.py", "question_qc.py">>

PipeIdle ==
    /\ started = <<>>
    /\ returncodes = <<>>
    /\ test_bank_file = "absent"
    /\ enhanced_file = "absent"

\* the script is about to run: output/ may hold the files of an earlier run
PipeInit ==
    /\ pc = "step1"
    /\ started = <<>>
    /\ returncodes = <<>>
    /\ test_bank_file \in {"absent", "old"}
    /\ enhanced_file \in {"absent", "old"}

notPipe == <<tocVars, quotaVars, bankVars, qcVars, genVars, chunkVars, simVars, enhVars,
            docVars, embVars>>

\* line 10 : subprocess.run starts simple_generator.py
StartGenerator ==
    /\ pc = "step1"
    /\ started' = Append(started, Stages[1])
    /\ pc' = "running1"
    /\ UNCHANGED <<returncodes, test_bank_file, enhanced_file, notPipe>>

\* line 10 : simple_generator.py ends and subprocess.run returns; the
\* generator writes test_bank.json as its last step, so it exits with 0 only
\* after writing it.  The return code is not read.
GeneratorExits ==
    /\ pc = "running1"
    /\ \E code \in 0..MaxReturnCode :
          /\ returncodes' = Append(returncodes, code)
          /\ test_bank_file' = IF code = 0 THEN "new" ELSE test_bank_file
    /\ pc' = "step2"
    /\ UNCHANGED <<started, enhanced_file, notPipe>>

\* line 14 : subprocess.run starts enhanced_fix_questions.py
StartFixer ==
    /\ pc = "step2"
    /\ started' = Append(started, Stages[2])
    /\ pc' = "running2"
    /\ UNCHANGED <<returncodes, test_bank_file, enhanced_file, notPipe>>

\* line 14 : enhanced_fix_questions.py ends; it cannot exit with 0 when its
\* input is absent, and writes its output only when it exits with 0
FixerExits ==
    /\ pc = "running2"
    /\ \E code \in 0..MaxReturnCode :
          /\ code = 0 => test_bank_file # "absent"
          /\ returncodes' = Append(returncodes, code)
          /\ enhanced_file' = IF code = 0 THEN "new" ELSE enhanced_file
    /\ pc' = "step3"
    /\ UNCHANGED <<started, test_bank_file, notPipe>>

\* line 19 : subprocess.run starts question_qc.py
StartQC ==
    /\ pc = "step3"
    /\ started' = Append(started, Stages[3])
    /\ pc' = "running3"
    /\ UNCHANGED <<returncodes, test_bank_file, enhanced_file, notPipe>>

\* line 19 : question_qc.py ends; it reads and rewrites the enhanced bank
QCExits ==
    /\ pc = "running3"
    /\ \E code \in 0..MaxReturnCode :
          /\ code = 0 => enhanced_file # "absent"
          /\ returncodes' = Append(returncodes, code)
          /\ enhanced_file' = IF code = 0 THEN "new" ELSE enhanced_file
    /\ pc' = "pipe_done"
    /\ UNCHANGED <<started, test_bank_file, notPipe>>

PipeNext ==
    \/ StartGenerator
    \/ GeneratorExits
    \/ StartFixer
    \/ FixerExits
    \/ StartQC
    \/ QCExits

\* ------------------------------------------------------------------------
\* pdf_processor.py 54-144 : extract_table_of_contents and its three
\* strategies.  Pages are numbered from 1 here and from 0 in the source;
\* a font size is a whole number of points.
\* ------------------------------------------------------------------------

MaxTocLines == 2

\* the first place from i on whose character is not of the class, or
\* Len(text) + 1 : where the greedy run of the class that starts at i ends
RunEndOf(text, i, InClass(_)) ==
    LET stops == {j \in i..Len(text) : ~InClass(Char(text, j))}
    IN  IF stops = {} THEN Len(text) + 1 ELSE Least(stops)

\* [^\n.]
IsTitleChar(c) == c # "\n" /\ c # "."

IsDot(c) == c = "."

\* line 103, the pattern ([^\n.]+)\.{2,}\s*(\d+) tried at place i : the two
\* groups and the end of the match, or <<>>.  Neighbouring parts of the
\* pattern have disjoint classes, so the greedy runs are the only match.
TocMatchAt(text, i) ==
    LET a == RunEndOf(text, i, IsTitleChar)
        b == RunEndOf(text, a, IsDot)
        c == RunEndOf(text, b, IsSpace)
        d == RunEndOf(text, c, IsDigit)
    IN  IF a > i /\ b >= a + 2 /\ d > c
           THEN <<[title |-> SubSeq(text, i, a - 1),
                   page  |-> SubSeq(text, c, d - 1),
                   end   |-> d]>>
           ELSE <<>>

\* line 103 : re.finditer over the text from place from on
RECURSIVE TocMatches(_, _)
TocMatches(text, from) ==
    LET starts == {i \in from..Len(text) : TocMatchAt(text, i) # <<>>}
    IN  IF starts = {} THEN <<>>
        ELSE TocMatchAt(text, Least(starts))
                 \o TocMatches(text, TocMatchAt(text, Least(starts))[1].end)

\* str.startswith
StartsWith(str, prefix) ==
    Len(str) >= Len(prefix) /\ SubSeq(str, 1, Len(prefix)) = prefix

\* lines 58-65 : the outline, in the format of the processor
OutlineToc(outline) ==
    [k \in 1..Len(outline) |->
        [level |-> outline[k][1], title |-> outline[k][2], page |-> outline[k][3]]]

\* lines 79-93 : the pages among the first ten that name a table of
\* contents, each followed by the page after it when there is one
RECURSIVE FindTocPages(_, _)
FindTocPages(pages, page_num) ==
    IF page_num > Min(10, Len(pages)) THEN <<>>
    ELSE (IF \E text \in {Lower(pages[page_num])} :
                Contains(text, "content") /\ Contains(text, "table")
             THEN <<page_num>>
                  \o (IF page_num + 1 <= Len(pages) THEN <<page_num + 1>> ELSE <<>>)
             ELSE <<>>)
         \o FindTocPages(pages, page_num + 1)

\* lines 97-100 : the text of the pages, one after the other
RECURSIVE TocText(_, _)
TocText(pages, page_nums) ==
    IF page_nums = <<>> THEN ""
    ELSE pages[Head(page_nums)] \o TocText(pages, Tail(page_nums))

\* lines 104-119 : the entry of one match; the title is stripped before its
\* indentation is looked at, and four spaces are tested before eight
TocEntry(match) ==
    LET title == Strip(match.title)
        level == IF StartsWith(title, "    ") THEN 2
                 ELSE IF StartsWith(title, "        ") THEN 3
                 ELSE 1
    IN  [level |-> level, title |-> LStrip(title), page |-> ParseInt(match.page)]

\* lines 95-119
ParseTocFromPages(pages, page_nums) ==
    LET matches == TocMatches(TocText(pages, page_nums), 1)
    IN  [k \in 1..Len(matches) |-> TocEntry(matches[k])]

\* lines 132-136 : a span is a heading when its font is larger than 12
\* points and its text has 4 to 99 characters
IsHeading(span) ==
    \E text \in {Strip(span.text)} :
        span.size > 12 /\ Len(text) < 100 /\ Len(text) > 3

\* lines 121-144
RECURSIVE ExtractHeadingsAsToc(_)
ExtractHeadingsAsToc(spans) ==
    IF spans = <<>> THEN <<>>
    ELSE (IF IsHeading(Head(spans))
             THEN <<[level |-> IF Head(spans).size > 14 THEN 1 ELSE 2,
                     title |-> Strip(Head(spans).text),
                     page  |-> Head(spans).page]>>
             ELSE <<>>)
         \o ExtractHeadingsAsToc(Tail(spans))

\* lines 54-75 : self.toc when extract_table_of_contents returns
ExtractedToc(outline, pages, spans) ==
    IF outline # <<>> THEN OutlineToc(outline)
    ELSE LET toc_pages == FindTocPages(pages, 1)
         IN  IF toc_pages # <<>> THEN ParseTocFromPages(pages, toc_pages)
             ELSE ExtractHeadingsAsToc(spans)

DocIdle ==
    /\ doc_toc = <<>>
    /\ doc_pages = <<>>
    /\ doc_spans = <<>>

\* the lines a contents page may carry: an entry with dot leaders, at three
\* depths of indentation, and a line without leaders
TocLines ==
    {indent \o "Signs..2" : indent \in {"", "    ", "        "}} \cup {"Signs 2"}

RECURSIVE JoinLines(_)
JoinLines(lines) ==
    IF lines = <<>> THEN ""
    ELSE Head(lines) \o "\n" \o JoinLines(Tail(lines))

TocPageTexts ==
    {header \o JoinLines(lines) :
        header \in {"", "Table of Contents\n"},
        lines \in UNION {[1..n -> TocLines] : n \in 0..MaxTocLines}}

SpanInputs ==
    {<<>>,
     <<[size |-> 16, text |-> "Signs", page |-> 1]>>,
     <<[size |-> 13, text |-> " Speed limits ", page |-> 2]>>,
     <<[size |-> 12, text |-> "Signs", page |-> 1]>>,
     <<[size |-> 16, text |-> "12", page |-> 1]>>}

\* lines 24-29 : the processor after construction, over a PDF of two pages
DocInit ==
    /\ pc = "doc_open"
    /\ doc_toc \in {<<>>, << <<1, "Signs", 1>> >>}
    /\ doc_pages \in {<<text, "">> : text \in TocPageTexts}
    /\ doc_spans \in SpanInputs
    /\ toc = <<>>
    /\ page_count = Len(doc_pages)
    /\ structured_sections = <<>>

\* lines 54-77
ExtractTableOfContents ==
    /\ pc = "doc_open"
    /\ \E extracted \in {ExtractedToc(doc_toc, doc_pages, doc_spans)} :
          /\ toc' = extracted
          /\ structured_sections' = StructureToc(extracted, page_count)
    /\ pc' = "extracted"
    /\ UNCHANGED <<page_count, quotaVars, bankVars, qcVars, genVars, extVars>>

\* ------------------------------------------------------------------------
\* question_generator.py 104-110 : embed_chunks.  A chunk is a dict, as
\* chunk['text'] and chunk['embedding'] (lines 109, 118) read it; a vector
\* is a tuple of whole numbers.
\* ------------------------------------------------------------------------

MaxEmbChunks == 2

\* the value None, told from every vector by its length: a vector has a
\* component
None == <<>>

\* model.encode(text).tolist() : a function of the text alone
Encode(text) == <<Len(text)>>

\* the attributes of a dict are its methods: its keys are not among them
DictAttributes ==
    {"clear", "copy", "fromkeys", "get", "items", "keys", "pop", "popitem",
     "setdefault", "update", "values"}

\* hasattr(chunk, name) on a dict
HasAttr(chunk, name) == name \in DictAttributes

\* line 108 : the test that lets a chunk be encoded; `or` does not look at
\* chunk.embedding unless the attribute exists
ToEncode(chunk) ==
    \/ ~HasAttr(chunk, "embedding")
    \/ chunk.embedding = None

\* lines 109-110 : self.chunks[i]['embedding'] = ...
Embedded(chunk) ==
    [key \in DOMAIN chunk \cup {"embedding"} |->
        IF key = "embedding" THEN Encode(chunk.text) ELSE chunk[key]]

\* lines 107-110 : the chunks and the calls of model.encode after the loop
RECURSIVE embed_chunks(_, _, _)
embed_chunks(list, calls, i) ==
    IF i > Len(list) THEN [chunks |-> list, calls |-> calls]
    ELSE IF ToEncode(list[i])
            THEN embed_chunks([list EXCEPT ![i] = Embedded(list[i])],
                              Append(calls, i), i + 1)
            ELSE embed_chunks(list, calls, i + 1)

EmbIdle ==
    /\ emb_chunks = <<>>
    /\ encode_calls = <<>>

\* a chunk as the chunker wrote it, without the key, or with the key, set
\* to None, to the vector of the text or to a vector stored earlier
EmbChunkInputs ==
    UNION {{[text |-> text],
            [text |-> text, embedding |-> None],
            [text |-> text, embedding |-> Encode(text)],
            [text |-> text, embedding |-> <<0>>]} :
              text \in {"Stop.", "Yield.", "Slow down."}}

\* lines 40-46 : the generator before embed_chunks is called
EmbInit ==
    /\ pc = "embed"
    /\ emb_chunks \in UNION {[1..n -> EmbChunkInputs] : n \in 0..MaxEmbChunks}
    /\ encode_calls = <<>>

\* lines 104-110
EmbedChunks ==
    /\ pc = "embed"
    /\ \E done \in {embed_chunks(emb_chunks, encode_calls, 1)} :
          /\ emb_chunks' = done.chunks
          /\ encode_calls' = done.calls
    /\ pc' = "embedded"
    /\ UNCHANGED <<tocVars, quotaVars, bankVars, qcVars, genVars, chunkVars, simVars,
                   enhVars, pipeVars, docVars>>

MoreIdle == PipeIdle /\ DocIdle /\ EmbIdle

ExtIdle == ChunkIdle /\ SimIdle /\ EnhIdle /\ MoreIdle

\* ------------------------------------------------------------------------
\* Specifications
\* ------------------------------------------------------------------------

vars == <<pc, tocVars, quotaVars, bankVars, qcVars, genVars, extVars>>

InitToc ==
    /\ GenIdle
    /\ TocInit
    /\ QuotaIdle
    /\ BankIdle
    /\ QCIdle
    /\ ExtIdle

SpecToc == InitToc /\ [][StructureTocStep]_vars

InitTocIds ==
    /\ TocIdInit
    /\ QuotaIdle
    /\ BankIdle
    /\ QCIdle
    /\ GenIdle
    /\ ExtIdle

SpecTocIds == InitTocIds /\ [][StructureTocStep]_vars

\* one call of chunk_text_by_sections
InitChunk ==
    /\ ChunkInit
    /\ QuotaIdle
    /\ BankIdle
    /\ QCIdle
    /\ GenIdle
    /\ SimIdle
    /\ EnhIdle
    /\ MoreIdle

SpecChunk == InitChunk /\ [][ChunkNext]_vars

\* one call of find_most_similar_chunks
InitSimilar ==
    /\ SimInit
    /\ TocIdle
    /\ QuotaIdle
    /\ QCIdle
    /\ GenIdle
    /\ ChunkIdle
    /\ EnhIdle
    /\ MoreIdle

SpecSimilar == InitSimilar /\ [][FindMostSimilar]_vars

\* one run of either repair script over a bank
InitFix ==
    /\ FixInit
    /\ TocIdle
    /\ QuotaIdle
    /\ GenIdle
    /\ ChunkIdle
    /\ SimIdle
    /\ MoreIdle

SpecFix == InitFix /\ [][FixNext]_vars

\* one run of either repair script over a question of every table entry
InitEntries ==
    /\ EntryInit
    /\ TocIdle
    /\ QuotaIdle
    /\ GenIdle
    /\ ChunkIdle
    /\ SimIdle
    /\ MoreIdle

SpecEntries == InitEntries /\ [][FixNext]_vars

\* one coverage report, by the validator or by the simple generator
InitCoverage ==
    /\ CovInit
    /\ TocIdle
    /\ QuotaIdle
    /\ GenIdle
    /\ ExtIdle

SpecCoverage == InitCoverage /\ [][CovNext]_vars

\* one run of generate_and_fix.py
InitPipeline ==
    /\ PipeInit
    /\ TocIdle
    /\ QuotaIdle
    /\ BankIdle
    /\ QCIdle
    /\ GenIdle
    /\ ChunkIdle
    /\ SimIdle
    /\ EnhIdle
    /\ DocIdle
    /\ EmbIdle

SpecPipeline == InitPipeline /\ [][PipeNext]_vars

\* one call of extract_table_of_contents
InitExtract ==
    /\ DocInit
    /\ QuotaIdle
    /\ BankIdle
    /\ QCIdle
    /\ GenIdle
    /\ ChunkIdle
    /\ SimIdle
    /\ EnhIdle
    /\ PipeIdle
    /\ EmbIdle

SpecExtract == InitExtract /\ [][ExtractTableOfContents]_vars

\* one call of embed_chunks
InitEmbed ==
    /\ EmbInit
    /\ TocIdle
    /\ QuotaIdle
    /\ BankIdle
    /\ QCIdle
    /\ GenIdle
    /\ ChunkIdle
    /\ SimIdle
    /\ EnhIdle
    /\ PipeIdle
    /\ DocIdle

SpecEmbed == InitEmbed /\ [][EmbedChunks]_vars

InitQuota ==
    /\ GenIdle
    /\ QuotaInit
    /\ TocIdle
    /\ BankIdle
    /\ QCIdle
    /\ ExtIdle

QuotaNext == ComputeTargets \/ ComputeSimpleCounts

SpecQuota == InitQuota /\ [][QuotaNext]_vars

InitBank ==
    /\ GenIdle
    /\ BankInit
    /\ TocIdle
    /\ QCIdle
    /\ ExtIdle

SpecBank == InitBank /\ [][BankNext]_vars

\* one run of the validator over any bank
InitQC ==
    /\ QCLoaded(PassingPool \o FailingPool)
    /\ NumFailing(questions) <= MaxFailing
    /\ TocIdle
    /\ QuotaIdle
    /\ GenIdle
    /\ ExtIdle

SpecQC == InitQC /\ [][QCMain]_vars

\* the validator run, and run again, over a bank that passes every check
InitQCTwice ==
    /\ QCLoaded(PassingPool)
    /\ TocIdle
    /\ QuotaIdle
    /\ GenIdle
    /\ ExtIdle

QCTwiceNext == QCMain \/ QCRunAgain

SpecQCTwice == InitQCTwice /\ [][QCTwiceNext]_vars

\* one call of create_question_from_chunk
InitGen ==
    /\ GenInit
    /\ TocIdle
    /\ QuotaIdle
    /\ QCIdle
    /\ ExtIdle

SpecGen == InitGen /\ [][GenNext]_vars

\* ------------------------------------------------------------------------
\* Claims
\* ------------------------------------------------------------------------

\* C1: every question returned by create_question_from_chunk has exactly
\* four choices labelled A, B, C, D in that order, and exactly one of them
\* has isCorrect = true.
C1_FourChoicesOneCorrect ==
    pc = "gen_done" =>
        /\ Len(gen_question.choices) = 4
        /\ \A i \in 1..4 : gen_question.choices[i].label = Char("ABCD", i)
        /\ Cardinality({i \in 1..4 : gen_question.choices[i].isCorrect}) = 1

\* C2: after the validation pass over any input bank, every question of
\* the written bank has pageRef > 0 and none of the banned phrases, compared
\* without regard to letter case, in its stem or in any choice text.
BannedAnyCase(text) ==
    \E k \in 1..Len(banned_phrases) :
        Contains(Lower(text), Lower(banned_phrases[k]))

C2_WrittenBankClean ==
    pc = "qc_done" =>
        \A i \in 1..Len(final_questions) :
            LET q == final_questions[i]
            IN  /\ q.pageRef > 0
                /\ ~BannedAnyCase(q.questionText)
                /\ \A c \in 1..Len(q.choices) : ~BannedAnyCase(q.choices[c].text)

\* C3: a question whose stem contains "Follow Kentucky guidelines for" has,
\* after validation, a stem that differs from the original and four choice
\* texts that each differ from the original choice and contain no banned
\* phrase, while every question that passed all checks is in the output
\* with every field unchanged.
Written(id) ==
    {i \in 1..Len(final_questions) : final_questions[i].questionID = id}

BannedText(text) ==
    \E k \in 1..Len(banned_phrases) : Contains(text, banned_phrases[k])

C3_BannedStemRewrittenOthersUnchanged ==
    pc = "qc_done" =>
        \A i \in 1..Len(questions) :
            LET q == questions[i]
            IN  /\ Contains(q.questionText, banned_phrases[1]) =>
                     \E j \in Written(q.questionID) :
                        LET r == final_questions[j]
                        IN  /\ r.questionText # q.questionText
                            /\ Len(r.choices) = 4
                            /\ \A c \in 1..4 :
                                  /\ r.choices[c].text # q.choices[c].text
                                  /\ ~BannedText(r.choices[c].text)
                /\ PassesQC(q) =>
                     \E j \in Written(q.questionID) : final_questions[j] = q

\* C4: the validator run on a bank in which every question passes all
\* checks writes a bank identical to its input, so a second run on what it
\* wrote reproduces the first run's output.
C4_PassingBankIsFixedPoint ==
    pc = "qc_done" => final_questions = questions

C4_Witness ==
    /\ pc = "qc_done"
    /\ runs = 2
    /\ Len(questions) = 2
    /\ \A i \in 1..Len(questions) : PassesQC(questions[i])
    /\ final_questions = questions

\* C5: for every requested total n both generators' quotas are 50/35/15
\* percent of n rounded down, the whole rounding remainder added to easy,
\* so that easy + medium + hard = n.
ClaimedQuotas(n) ==
    LET medium == (35 * n) \div 100
        hard   == (15 * n) \div 100
    IN  [easy |-> n - medium - hard, medium |-> medium, hard |-> hard]

C5_QuotasRoundedDownRemainderToEasy ==
    pc = "quota_done" =>
        /\ difficulty_targets = ClaimedQuotas(num_questions)
        /\ simple_counts = ClaimedQuotas(num_questions)

\* C6: for a non-empty chunk set generate_test_bank(n) returns exactly n
\* questions whose per-difficulty counts equal the computed quotas.
C6_BankHasExactlyQuotaCounts ==
    (pc = "bank_done" /\ chunks # <<>>) =>
        /\ Len(questions) = num_questions
        /\ \A d \in Difficulties :
              CountDifficulty(questions, d) = difficulty_targets[d]

\* C7: in the returned bank every level-1 section with at least one chunk
\* has at least 8 questions carrying its sectionID, and every deeper section
\* with at least one chunk has at least 1.
C7_SectionMinimumsMet ==
    pc = "bank_done" =>
        \A i \in 1..Len(sections) :
            SectionChunks(chunks, sections[i]) # {} =>
                CountQuestions(questions, sections[i].id, "any")
                    >= (IF sections[i].level = 1 THEN 8 ELSE 1)

\* a returned bank in which a chapter and a deeper section both have
\* chunks, the chapter with exactly its minimum of 8 questions
C7_Witness ==
    /\ pc = "bank_done"
    /\ \E i, j \in 1..Len(sections) :
          /\ sections[i].level = 1
          /\ sections[j].level > 1
          /\ SectionChunks(chunks, sections[i]) # {}
          /\ SectionChunks(chunks, sections[j]) # {}
          /\ CountQuestions(questions, sections[i].id, "any") = 8

\* C8: a section with zero chunks never makes generation fail and
\* contributes zero questions, and the coverage report computed from the
\* bank has an entry for it showing zero questions and 0% coverage.
C8_EmptySectionReportedAsZero ==
    /\ (chunks # <<>> => pc # "crashed")
    /\ pc = "covered" =>
          \A i \in 1..Len(sections) :
              SectionChunks(chunks, sections[i]) = {} =>
                  /\ CountQuestions(questions, sections[i].id, "any") = 0
                  /\ sections[i].id \in DOMAIN coverage_report
                  /\ coverage_report[sections[i].id].totalQuestions = 0
                  /\ IsZeroPercent(coverage_report[sections[i].id].coveragePercent)

\* C9: after _structure_toc each child's page range is a subset of its
\* parent's, and sections sharing a parent have non-overlapping page ranges
\* that increase in document order.
PageSet(section) == section.pageRange[1]..section.pageRange[2]

C9_ChildWithinParentSiblingsOrdered ==
    pc = "structured" =>
        LET ss == structured_sections
        IN  /\ \A i, j \in 1..Len(ss) :
                  (ss[i].parent # NoId /\ ss[j].id = ss[i].parent)
                      => PageSet(ss[i]) \subseteq PageSet(ss[j])
            /\ \A i, j \in 1..Len(ss) :
                  (i < j /\ ss[i].parent = ss[j].parent)
                      => \A x \in PageSet(ss[i]) : \A y \in PageSet(ss[j]) : x < y

\* C10: for a flat TOC with increasing start pages the level-1 sections have
\* start <= end, leave no page between the first level-1 start page and the
\* last page of the document uncovered, and no page lies in two of them.
IncreasingPages(items) ==
    \A i \in 1..(Len(items) - 1) : items[i].page < items[i + 1].page

C10_TopLevelPartition ==
    (pc = "structured" /\ IncreasingPages(toc)) =>
        LET ss   == structured_sections
            tops == {i \in 1..Len(ss) : ss[i].level = 1}
        IN  tops # {} =>
              LET first == CHOOSE i \in tops : \A j \in tops : i <= j
              IN  /\ \A i \in tops : ss[i].pageRange[1] <= ss[i].pageRange[2]
                  /\ \A p \in ss[first].pageRange[1]..page_count :
                        \E i \in tops : p \in PageSet(ss[i])
                  /\ \A i, j \in tops :
                        i # j => PageSet(ss[i]) \cap PageSet(ss[j]) = {}

\* C11: for any flat TOC (any level sequence, titles that repeat or sanitize
\* to the empty string), _structure_toc assigns pairwise distinct section
\* ids.
C11_SectionIdsDistinct ==
    pc = "structured" =>
        \A i, j \in 1..Len(structured_sections) :
            i # j => structured_sections[i].id # structured_sections[j].id

\* a TOC with a repeated title under one parent and a title that sanitizes
\* to "", structured
C11_Witness ==
    /\ pc = "structured"
    /\ Len(structured_sections) >= 3
    /\ \E i, j \in 1..Len(structured_sections) :
          /\ i # j
          /\ structured_sections[i].title = structured_sections[j].title
          /\ structured_sections[i].parent = structured_sections[j].parent
    /\ \E i \in 1..Len(structured_sections) :
          CleanTitle(structured_sections[i].title) = ""

\* the paragraphs of a chunk
ChunkParagraphs(chunk) == Split(chunk.text, ParagraphSeparator)

\* C12: every chunk produced by chunk_text_by_sections that consists of more
\* than one paragraph has text length at most the 1000-character budget,
\* separators included; only a chunk made of a single paragraph may exceed
\* the budget.
C12_MultiParagraphChunkWithinBudget ==
    pc = "chunked" =>
        \A k \in 1..Len(text_chunks) :
            Len(ChunkParagraphs(text_chunks[k])) > 1
                => Len(text_chunks[k].text) <= ChunkBudget

\* the non-blank paragraphs of a section's text, in their order
NonBlankParagraphs(section) ==
    SelectSeq(Split(SectionText(section, pages_text, page_count),
                    ParagraphSeparator),
              LAMBDA para : Strip(para) # "")

\* the texts of the chunks made for a section, in chunk-id order
ChunkTextsOf(section) ==
    LET mine == SelectSeq(text_chunks, LAMBDA c : c.section = section.id)
    IN  [k \in 1..Len(mine) |-> mine[k].text]

\* C13: for every section, the chunks produced by chunk_text_by_sections,
\* taken in chunk-id order and joined by the paragraph separator, reproduce
\* exactly the section's non-blank paragraphs in their original order, and
\* no chunk is empty.
C13_ChunksReproduceParagraphs ==
    pc = "chunked" =>
        /\ \A k \in 1..Len(text_chunks) :
              /\ text_chunks[k].text # ""
              /\ text_chunks[k].id = "chunk-" \o Decimal(k)
        /\ \A i \in 1..Len(section_map) :
              \E paragraphs \in {NonBlankParagraphs(section_map[i])},
                 texts \in {ChunkTextsOf(section_map[i])} :
                 /\ JoinWith(texts, ParagraphSeparator)
                       = JoinWith(paragraphs, ParagraphSeparator)
                 /\ Len(texts) <= Len(paragraphs)

\* a section with a blank paragraph among three others, whose paragraphs
\* went into more than one chunk, one of them holding two paragraphs
C13_Witness ==
    /\ pc = "chunked"
    /\ \E i \in 1..Len(section_map) :
          /\ Len(ChunkTextsOf(section_map[i])) >= 2
          /\ Len(NonBlankParagraphs(section_map[i])) >= 3
          /\ Len(NonBlankParagraphs(section_map[i]))
                < Len(Split(SectionText(section_map[i], pages_text, page_count),
                            ParagraphSeparator))
          /\ \E k \in 1..Len(text_chunks) :
                /\ text_chunks[k].section = section_map[i].id
                /\ Len(ChunkParagraphs(text_chunks[k])) >= 2

\* where a returned chunk stands in the chunk list
ChunkIndex(chunk) == CHOOSE i \in 1..Len(chunks) : chunks[i] = chunk

\* C14: find_most_similar_chunks(query, n) returns min(n, number of chunks)
\* chunks in non-increasing order of similarity to the query, no omitted
\* chunk has a higher similarity than a returned one, and chunks with equal
\* similarity appear in their original chunk-list order.
C14_TopNStableDescending ==
    pc = "found" =>
        /\ Len(found_chunks) = Min(top_n, Len(chunks))
        /\ \A i \in 1..Len(found_chunks) : found_chunks[i] \in Range(chunks)
        /\ \A i, j \in 1..Len(found_chunks) :
              i < j =>
                 \/ similarities[ChunkIndex(found_chunks[i])]
                       > similarities[ChunkIndex(found_chunks[j])]
                 \/ /\ similarities[ChunkIndex(found_chunks[i])]
                          = similarities[ChunkIndex(found_chunks[j])]
                    /\ ChunkIndex(found_chunks[i]) < ChunkIndex(found_chunks[j])
        /\ \A k \in 1..Len(chunks) :
              chunks[k] \notin Range(found_chunks) =>
                 \A i \in 1..Len(found_chunks) :
                    similarities[k] <= similarities[ChunkIndex(found_chunks[i])]

\* a call that leaves chunks out, over chunks of which two returned ones
\* have the same similarity and a later one has a higher similarity
C14_Witness ==
    /\ pc = "found"
    /\ 2 <= Len(found_chunks)
    /\ Len(found_chunks) < Len(chunks)
    /\ \E i, j \in 1..Len(found_chunks) :
          /\ i # j
          /\ similarities[ChunkIndex(found_chunks[i])]
                = similarities[ChunkIndex(found_chunks[j])]
    /\ \E i, j \in 1..Len(chunks) :
          i < j /\ similarities[i] < similarities[j]

\* wrong_answers[:num_wrong], the list generate_wrong_answers returns
ReturnedWrongAnswers == SubSeq(gen_wrong, 1, Min(3, Len(gen_wrong)))

\* C15: for every correct answer and topic, including when fewer than 3
\* usable neighbour facts exist, generate_wrong_answers returns exactly 3
\* strings that are pairwise distinct and each different from the correct
\* answer.
C15_ThreeDistinctWrongAnswers ==
    pc = "gen_done" =>
        /\ Len(ReturnedWrongAnswers) = 3
        /\ \A i, j \in 1..Len(ReturnedWrongAnswers) :
              i # j => ReturnedWrongAnswers[i] # ReturnedWrongAnswers[j]
        /\ \A i \in 1..Len(ReturnedWrongAnswers) :
              ReturnedWrongAnswers[i] # gen_correct

\* the questions main put into fixed_questions: final_questions is
\* fixed_questions followed by the regenerated ones
ClassifiedPass(id) ==
    \E i \in 1..qc_report.passing_questions : final_questions[i].questionID = id

\* the checks as the claim states them
ClaimedPass(question) ==
    /\ ~BannedAnyCase(question.questionText)
    /\ \A c \in 1..Len(question.choices) : ~BannedAnyCase(question.choices[c].text)
    /\ WordCount(question.questionText) <= 35
    /\ \A c \in 1..Len(question.choices) : WordCount(question.choices[c].text) <= 20
    /\ question.pageRef > 0
    /\ \A c \in 1..Len(question.choices) :
          question.choices[c].isCorrect => ~BannedAnyCase(question.choices[c].text)

\* C16: question_qc classifies a question as PASS exactly when no banned
\* phrase occurs as a case-insensitive substring of its stem or of any choice
\* text, the stem has at most 35 words, every choice has at most 20 words,
\* pageRef is positive, and the correct choice's text contains no banned
\* phrase; it sends the question to regeneration otherwise.
C16_PassExactlyWhenChecksHold ==
    pc = "qc_done" =>
        /\ qc_report.passing_questions + qc_report.regenerated_questions
              = Len(questions)
        /\ \A i \in 1..Len(questions) :
              ClassifiedPass(questions[i].questionID) <=> ClaimedPass(questions[i])

\* the questions main sent to regenerate_questions, each with what
\* regenerate_questions returned for it: final_questions ends with the
\* regenerated questions, in the order they were sent
RegeneratedPairs ==
    UNION { {<<sent[i], final_questions[Len(final_questions) - Len(sent) + i]>> :
                i \in 1..Len(sent)} :
            sent \in {SelectSeq(questions, FailsQC)} }

\* the questions enhanced_fix_questions.main sent to fix_questions, each
\* with what fix_questions returned for it: all_fixed_questions ends with
\* the newly fixed questions, and a fixed question keeps its questionID
FixedPairs ==
    {<<CHOOSE question \in Range(questions) : question.questionID = out.questionID,
       out>> :
        out \in {all_fixed_questions[i] :
                    i \in (Len(all_fixed_questions) - num_newly_fixed + 1)
                              ..Len(all_fixed_questions)}}

\* the text of the choices marked correct
CorrectTexts(question) ==
    {question.choices[c].text :
        c \in {d \in 1..Len(question.choices) : question.choices[d].isCorrect}}

\* the question was built from this entry: its answers are the entry's and
\* the one marked correct is the entry's correct answer
BuiltFrom(question, entry) ==
    /\ {question.choices[c].text : c \in 1..Len(question.choices)}
           = {entry.correct} \cup Range(entry.wrong)
    /\ CorrectTexts(question) = {entry.correct}

\* the correct answer names the page of the question
CarriesPageRef(question) ==
    \E text \in CorrectTexts(question) :
        Contains(text, "page " \o Str(question.pageRef))

\* the precedence of the claim over a table: an entry of the same key, else
\* an entry whose key contains the topic or is contained in it, else the
\* fallback
ChosenWithPrecedence(tab, topic, out, fallback) ==
    \E t \in {topic} :
    \E exact \in {KeyIndex(tab, t)} :
    \E partial \in {{k \in 1..Len(tab) : \/ Contains(t, tab[k].key)
                                            \/ Contains(tab[k].key, t)}} :
        IF exact # {} THEN \E k \in exact : BuiltFrom(out, tab[k])
        ELSE IF partial # {} THEN \E k \in partial : BuiltFrom(out, tab[k])
        ELSE fallback

\* the fallback of question_qc: the generic entry, with the page of the
\* question in its correct answer
BuiltFromGeneric(question, out) ==
    /\ CarriesPageRef(out)
    /\ BuiltFrom(out, [generic_concrete_facts EXCEPT
                          !.correct = CorrectAnswer(generic_concrete_facts, question)])

\* the fallback of enhanced_fix_questions: the entry of the category the
\* sectionID starts with, else the first category entry
BuiltFromCategory(question, out) ==
    \E category \in {KeyIndex(CATEGORY_ANSWERS,
                               get_section_category(question.sectionID))} :
        IF category # {}
           THEN \E k \in category : BuiltFrom(out, CATEGORY_ANSWERS[k])
           ELSE BuiltFrom(out, CATEGORY_ANSWERS[1])

C18_RegenerationReplacesAll ==
    pc = "qc_done" =>
        \A pair \in RegeneratedPairs :
            \E new \in {NewContent(pair[1])} :
                /\ pair[2].questionText
                      \in {FixedStem(t, new.topic) : t \in QuestionTypes}
                /\ pair[2].choices
                      \in {MakeChoices(new.all_answers, perm, new.correct_answer) :
                               perm \in Perms4}
                /\ pair[2].explanation = new.explanation

\* four choices labelled A, B, C, D in order, one of them marked correct,
\* and its text the given answer
FourChoicesOneCorrect(question, correct_answer) ==
    /\ Len(question.choices) = 4
    /\ \A i \in 1..4 : question.choices[i].label = Char(Labels, i)
    /\ Cardinality({i \in 1..4 : question.choices[i].isCorrect}) = 1
    /\ CorrectTexts(question) = {correct_answer}

\* C19: every question regenerated by question_qc.regenerate_questions or
\* rewritten by enhanced_fix_questions.fix_questions has exactly four choices
\* labelled A, B, C, D in positional order, exactly one of which is marked
\* correct, and the text of that choice is the correct answer of the fact
\* entry chosen for the question.
C19_RepairedChoicesWellFormed ==
    /\ pc = "qc_done" =>
          \A pair \in RegeneratedPairs :
              \E facts \in {LookupFacts(extract_topic(pair[1]))} :
                  FourChoicesOneCorrect(pair[2], CorrectAnswer(facts, pair[1]))
    /\ pc = "enh_done" =>
          \A pair \in FixedPairs :
              \E answers \in {get_appropriate_answers(
                                  enhanced_extract_topic(pair[1]),
                                  get_section_category(pair[1].sectionID))} :
                  FourChoicesOneCorrect(pair[2], answers.correct)

\* a repaired question, built from an entry of the table of the script that
\* repaired it, whose shuffle put the correct answer last
C19_Witness ==
    \/ /\ pc = "qc_done"
       /\ \E pair \in RegeneratedPairs :
             /\ pair[2].choices[4].isCorrect
             /\ \E k \in 1..Len(concrete_facts) : BuiltFrom(pair[2], concrete_facts[k])
    \/ /\ pc = "enh_done"
       /\ \E pair \in FixedPairs :
             /\ pair[2].choices[4].isCorrect
             /\ \E k \in 1..Len(TOPIC_ANSWERS) : BuiltFrom(pair[2], TOPIC_ANSWERS[k])

\* the bank a coverage report was built from
ReportedBank == IF pc = "qc_done" THEN final_questions ELSE questions

\* the questions of a bank in a section or in one of its subsections
QuestionsUnder(bank, section_id) ==
    {i \in 1..Len(bank) :
        \/ bank[i].sectionID = section_id
        \/ \E k \in 1..Len(qc_sections) :
              /\ qc_sections[k].id = bank[i].sectionID
              /\ qc_sections[k].parent = section_id}

\* C20: in the coverage report built from a final bank by
\* question_qc.update_coverage_report or by simple_generator.main, the entry
\* of each top-level section has as totalQuestions the number of questions
\* of the bank whose sectionID is that section or one of its subsections, as
\* easy, medium and hard counts the numbers of those questions of each
\* difficulty, and the overall entry has the bank size as totalQuestions.
C20_SectionTotalsMatchBank ==
    pc \in {"qc_done", "sg_covered"} =>
        /\ coverage_report["overall"].totalQuestions = Len(ReportedBank)
        /\ \A key \in DOMAIN coverage_report \ {"overall"} :
              \E under \in {QuestionsUnder(ReportedBank, key)} :
                  /\ coverage_report[key].totalQuestions = Cardinality(under)
                  /\ coverage_report[key].easyQuestions
                        = Cardinality({i \in under : ReportedBank[i].difficulty = "easy"})
                  /\ coverage_report[key].mediumQuestions
                        = Cardinality({i \in under : ReportedBank[i].difficulty = "medium"})
                  /\ coverage_report[key].hardQuestions
                        = Cardinality({i \in under : ReportedBank[i].difficulty = "hard"})

\* C21: in the generate_and_fix pipeline the scripts are started in the order
\* generator, enhanced fixer, quality control, each only after the one before
\* it has ended, and when a script fails (ends with a non-zero code) the run
\* is aborted: no later script is started.
C21_StagesInOrderAbortOnFailure ==
    /\ Len(started) <= Len(Stages)
    /\ \A k \in 1..Len(started) : started[k] = Stages[k]
    /\ Len(returncodes) <= Len(started)
    /\ Len(started) <= Len(returncodes) + 1
    /\ \A k \in 1..Len(returncodes) : returncodes[k] # 0 => Len(started) = k

\* the places of a section id in a children list
PlacesIn(children, id) == {k \in 1..Len(children) : children[k] = id}

\* C22: after _structure_toc, every section with a parent, the last section
\* of the TOC included, appears exactly once in the children list of that
\* parent; a children list holds only sections whose parent field names the
\* section, in document order; and every parent precedes its children in the
\* list returned.
C22_ChildrenListsComplete ==
    pc = "structured" =>
        \E ss \in {structured_sections} :
            /\ \A i \in 1..Len(ss) :
                  ss[i].parent # NoId =>
                      \E p \in 1..(i - 1) :
                          /\ ss[p].id = ss[i].parent
                          /\ Cardinality(PlacesIn(ss[p].children, ss[i].id)) = 1
            /\ \A p \in 1..Len(ss) :
                  \A k \in 1..Len(ss[p].children) :
                      \E i \in 1..Len(ss) :
                          /\ ss[i].id = ss[p].children[k]
                          /\ ss[i].parent = ss[p].id
                          /\ \A l \in 1..(k - 1) :
                                \E j \in 1..(i - 1) : ss[j].id = ss[p].children[l]

\* what each strategy yields for the document, in the order of the attempts
StrategyResults ==
    <<OutlineToc(doc_toc),
      ParseTocFromPages(doc_pages, FindTocPages(doc_pages, 1)),
      ExtractHeadingsAsToc(doc_spans)>>

\* C23: extract_table_of_contents takes the entries of the first of the
\* three strategies (outline, contents pages, font-size headings) that
\* yields any, and returns an empty section list only if all three
\* strategies yielded none.
C23_FirstNonEmptyStrategy ==
    pc = "extracted" =>
        \E results \in {StrategyResults} :
            /\ toc = (IF results[1] # <<>> THEN results[1]
                      ELSE IF results[2] # <<>> THEN results[2]
                      ELSE results[3])
            /\ structured_sections = <<>> =>
                   \A k \in 1..3 : results[k] = <<>>

\* the number of spaces a string begins with
LeadingSpaces(str) == Len(str) - Len(LStrip(str))

\* C24: an entry parsed from the contents pages has level 1 when its line
\* is not indented, level 2 when it is indented by four spaces and level 3
\* when it is indented by eight spaces.
C24_LevelFromIndentation ==
    (pc = "extracted" /\ doc_toc = <<>> /\ FindTocPages(doc_pages, 1) # <<>>) =>
        \E matches \in {TocMatches(TocText(doc_pages, FindTocPages(doc_pages, 1)), 1)} :
            /\ Len(toc) = Len(matches)
            /\ \A k \in 1..Len(matches) :
                  /\ LeadingSpaces(matches[k].title) = 0 => toc[k].level = 1
                  /\ LeadingSpaces(matches[k].title) = 4 => toc[k].level = 2
                  /\ LeadingSpaces(matches[k].title) = 8 => toc[k].level = 3

\* the chunk carries an embedding: the key is there and its value is a vector
CarriesEmbedding(chunk) ==
    "embedding" \in DOMAIN chunk /\ chunk.embedding # None

\* C25: a chunk that carries an embedding when embed_chunks runs is not
\* given to model.encode and keeps its stored vector.
C25_EmbeddedOnce ==
    [][EmbedChunks =>
          \A i \in 1..Len(emb_chunks) :
              CarriesEmbedding(emb_chunks[i]) =>
                  /\ emb_chunks'[i].embedding = emb_chunks[i].embedding
                  /\ \A k \in 1..Len(encode_calls') : encode_calls'[k] # i]_vars

\* the stem ends with a question mark and does not begin with a lower-case
\* letter
WellFormedStem(text) ==
    /\ text # ""
    /\ Char(text, Len(text)) = "?"
    /\ ~IsLower(Char(text, 1))

\* C26: every stem create_question_from_chunk emits, and every stem
\* fix_questions emits, ends with "?" and does not begin with a lower-case
\* letter.
C26_StemsAreQuestions ==
    /\ pc = "gen_done" => WellFormedStem(gen_question.questionText)
    /\ pc = "enh_done" =>
           \A i \in (Len(all_fixed_questions) - num_newly_fixed + 1)
                        ..Len(all_fixed_questions) :
               WellFormedStem(all_fixed_questions[i].questionText)

\* C28: create_question_from_chunk returns a question for every chunk and
\* every outcome of its random draws: whatever type and template it picks,
\* format is given every placeholder of the template, so no call ends in
\* a KeyError.
C28_EveryTemplateFormats ==
    /\ pc # "crashed"
    /\ pc = "strategy1" => gen_stem.ok

\* C29: the loop of generate_wrong_answers ends for every correct answer:
\* whenever it runs an iteration, with fewer than three wrong answers
\* collected, the iteration adds at least one, whatever its random draws.
C29_EveryIterationAdds ==
    (pc = "strategy2" /\ Len(gen_wrong) < 3) =>
        \A longer \in Strategy2(gen_wrong, gen_correct) : Len(longer) > Len(gen_wrong)

\* two percentages, kept as pairs, are the same number
SamePercent(p, q) == p[1] * q[2] = q[1] * p[2]

\* C27: the coverage percentage update_stats_file writes to the stats
\* summary is the coverage percentage of the final bank, the overall
\* coveragePercent that update_coverage_report reports for it.
C27_StatsCoverageIsComputed ==
    pc = "qc_done" =>
        /\ SamePercent(stats_file.coverage_percent,
                       update_coverage_report(final_questions).overall.coveragePercent)
        /\ SamePercent(stats_file.coverage_percent,
                       coverage_report.overall.coveragePercent)

\* C30: the bank question_qc.main writes holds the questions of the bank
\* it read, one for one and in the same order, each with its questionID,
\* sectionID, difficulty, pageRef and tags unchanged, and the QC report
\* has passing_questions + regenerated_questions = total_questions =
\* final_questions.
C30_BankKeptInOrder ==
    pc = "qc_done" =>
        /\ Len(final_questions) = Len(questions)
        /\ \A i \in 1..Len(questions) :
              /\ final_questions[i].questionID = questions[i].questionID
              /\ final_questions[i].sectionID = questions[i].sectionID
              /\ final_questions[i].difficulty = questions[i].difficulty
              /\ final_questions[i].pageRef = questions[i].pageRef
              /\ final_questions[i].tags = questions[i].tags
        /\ qc_report.passing_questions + qc_report.regenerated_questions
               = qc_report.total_questions
        /\ qc_report.total_questions = qc_report.final_questions

====
